---- MODULE Spec2Model ----
(***************************************************************************)
(* Double-entry ledger of ecobacgiangBE: posting engine (sale, COGS,       *)
(* post-entry, transfer, fixed assets, depreciation, adjusting entries),   *)
(* receivable/payable ledger, period closing and the trial balance.        *)
(*                                                                         *)
(* Conventions of the model                                                *)
(*  - every route handler / service function is one atomic action;        *)
(*  - amounts are whole dong (integers); the code's tolerance test        *)
(*    Math.abs(d - c) > 0.01 is kept as Abs(d - c) * 100 > 1;             *)
(*  - account codes are the numbers their digit strings denote, so the    *)
(*    regular expressions /^5|^7/ and /^6|^8/ become a test on the        *)
(*    leading digit;                                                       *)
(*  - Mongo ObjectIds are unique tokens <<kind, a, b>>; no operation      *)
(*    looks inside an id;                                                  *)
(*  - dates are small naturals (days), months are small naturals.         *)
(***************************************************************************)
EXTENDS Integers, Sequences, FiniteSets, TLC

\* ---------------------------------------------------------------- bounds
MaxOrders == 1
MaxAmount == 2
MaxReceipts == 1
MaxManual == 2
MaxEntries == 2
MaxAssets == 1
MaxMonths == 2
MaxPeriods == 1
MaxOverlap == 2
MaxDate == 2
MaxCost == 3
MaxRequests == 2

Orders == 1..MaxOrders
Amounts == 1..MaxAmount
AssetIds == 1..MaxAssets
Months == 1..MaxMonths
PeriodIds == 1..MaxPeriods
Dates == 1..MaxDate
Requests == 1..MaxRequests
AssetCosts == 1..MaxCost

\* ------------------------------------------------------------ arithmetic
Abs(x) == IF x < 0 THEN -x ELSE x

Max(a, b) == IF a > b THEN a ELSE b

Min(a, b) == IF a < b THEN a ELSE b

RECURSIVE LeadingDigit(_)
LeadingDigit(code) == IF code < 10 THEN code ELSE LeadingDigit(code \div 10)

RECURSIVE SumDebit(_)
SumDebit(lines) ==
  IF lines = << >> THEN 0 ELSE Head(lines).debit + SumDebit(Tail(lines))

RECURSIVE SumCredit(_)
SumCredit(lines) ==
  IF lines = << >> THEN 0 ELSE Head(lines).credit + SumCredit(Tail(lines))

RECURSIVE SumOver(_, _)
SumOver(S, f) ==
  IF S = {} THEN 0
  ELSE LET x == CHOOSE y \in S : TRUE IN f[x] + SumOver(S \ {x}, f)

Line(code, d, c) == [accountCode |-> code, debit |-> d, credit |-> c]

LineCodes(lines) == {lines[i].accountCode : i \in 1..Len(lines)}

\* a tolerance of 1.01 instead of 0.01
UnbalancedWide(lines) == Abs(SumDebit(lines) - SumCredit(lines)) * 100 > 101

\* Math.abs(totalDebit - totalCredit) > 0.01, the test every posting route makes
Unbalanced(lines) == Abs(SumDebit(lines) - SumCredit(lines)) * 100 > 1

\* ------------------------------------------------------- chart of accounts
\* defaultAccounts of the seed script (the codes the ledger routes touch).
DefaultAccounts ==
  { [code |-> 111, accountType |-> "asset"],
    [code |-> 1121, accountType |-> "asset"],
    [code |-> 131, accountType |-> "asset"],
    [code |-> 156, accountType |-> "asset"],
    [code |-> 211, accountType |-> "asset"],
    [code |-> 214, accountType |-> "asset"],
    [code |-> 331, accountType |-> "liability"],
    [code |-> 334, accountType |-> "liability"],
    [code |-> 511, accountType |-> "revenue"],
    [code |-> 711, accountType |-> "revenue"],
    [code |-> 632, accountType |-> "expense"],
    [code |-> 641, accountType |-> "expense"],
    [code |-> 642, accountType |-> "expense"],
    [code |-> 811, accountType |-> "expense"] }

VARIABLES
  accounts,      \* Account collection: set of [code, accountType]
  journal,       \* JournalEntry collection: set of entries
  receivables,   \* Receivable collection
  payables,      \* Payable collection
  orders,        \* Order collection: order id -> order document
  stock,         \* Product.stock per product
  assets,        \* FixedAsset collection: asset id -> asset document
  periods,       \* AccountingPeriod collection: period id -> period document
  response,      \* what the last handler returned
  requests,      \* requests in flight: request id -> where the handler stands
  partners,      \* User documents of role customer / supplier
  coupons,       \* Coupon collection: code -> coupon document
  couponOrders   \* Order.coupon, couponReserved, couponCommitted per order

vars ==
  <<accounts, journal, receivables, payables, orders, stock, assets, periods,
    response, requests, partners,
    coupons, couponOrders>>

AccountCodes(accs) == {a.code : a \in accs}

\* a handler between two of its awaits: what it is (op), where it stands
\* (pc), the document it is about (key), what it read (seen) and returned
Request(op, pc, key, seen, result) ==
  [op |-> op, pc |-> pc, key |-> key, seen |-> seen, result |-> result]

\* no request in flight
NoRequest == Request("none", "idle", 0, {}, "none")

\* ------------------------------------------------------------ journal
Entry(id, ref, date, etype, sid, stype, lines) ==
  [id |-> id, referenceNo |-> ref, date |-> date, entryType |-> etype,
   sourceId |-> sid, sourceType |-> stype, lines |-> lines, status |-> "posted"]

\* no entry: what findById returns for an absent journalEntryId
NoEntry == Entry(<<"none", 0, 0>>, <<"none", 0, 0>>, 0, "none", 0, "none", << >>)

\* a fresh ObjectId for an entry of a kind and source: the first number no
\* stored entry of that kind and source carries
NewId(kind, src, jr) ==
  LET used == {e.id[3] : e \in {x \in jr : x.id[1] = kind /\ x.id[2] = src}}
  IN <<kind, src,
       CHOOSE n \in 1..(Cardinality(used) + 1) :
         n \notin used /\ \A k \in 1..(n - 1) : k \in used>>

HasLineOn(e, code) == \E i \in 1..Len(e.lines) : e.lines[i].accountCode = code

\* ------------------------------------------------------------ receivables
\* Receivable/Payable pre-save middleware: the payment status is derived.
DeriveStatus(original, remaining) ==
  IF remaining <= 0 THEN "paid"
  ELSE IF remaining < original THEN "partial"
  ELSE "unpaid"

Debt(je, partner, order, original, remaining) ==
  [journalEntry |-> je, partner |-> partner, order |-> order,
   originalAmount |-> original, remainingAmount |-> remaining,
   paymentStatus |-> DeriveStatus(original, remaining)]

\* ------------------------------------------------------------ orders
PaymentMethods == {"COD", "BankTransfer", "Sepay", "MoMo"}

\* validStatuses of PATCH /api/orders/:id
ValidStatuses == {"pending", "paid", "shipped", "delivered", "cancelled", "processing"}

NoOrder ==
  [status |-> "none", paymentMethod |-> "COD", finalTotal |-> 0, items |-> << >>,
   createdAt |-> 0]

Products == {1, 2}

\* product.averageCost || product.price || 0 : product 2 carries no cost at all
ProductCost(p) == IF p = 1 THEN 2 ELSE 0

InitStock == [p \in Products |-> IF p = 1 THEN 3 ELSE 1]

ItemChoices ==
  { <<[product |-> 1, quantity |-> 2]>>, <<[product |-> 2, quantity |-> 1]>> }

\* a lookup that knows only the literal method name
IsBankTransferOnly(ord) == ord.paymentMethod = "BankTransfer"

IsBankTransfer(ord) == ord.paymentMethod \in {"BankTransfer", "Sepay", "MoMo"}

IsCOD(ord) == ord.paymentMethod = "COD"

\* a test that waits for the delivery
DeliveredOnly(status) == status = "delivered"

Shipped(status) == status \in {"shipped", "delivered"}

OrderEntries(jr, o) == {e \in jr : e.sourceId = o /\ e.sourceType = "order"}

\* createReceivableFromOrder
CreateReceivableFromOrder(o, ord, je, rc) ==
  IF \E r \in rc : r.order = o THEN rc
  ELSE rc \cup {Debt(je, <<"user", o>>, o, ord.finalTotal, ord.finalTotal)}

SaleIsCredit(ord) == IsCOD(ord) /\ Shipped(ord.status)

SaleLines(ord) ==
  IF IsCOD(ord) /\ Shipped(ord.status)
  THEN <<Line(131, ord.finalTotal, 0), Line(511, 0, ord.finalTotal)>>
  ELSE IF IsBankTransfer(ord)
  THEN <<Line(1121, ord.finalTotal, 0), Line(511, 0, ord.finalTotal)>>
  ELSE <<Line(131, ord.finalTotal, 0), Line(511, 0, ord.finalTotal)>>

\* the existing-entry lookup of createSaleJournalEntry / syncOrderToAccounting
ExistingOrderEntry(jr, o) == OrderEntries(jr, o) # {}

\* createSaleJournalEntry: the pair <<journal, receivables>> it leaves
CreateSaleJournalEntry(o, ord, jr, rc) ==
  IF ExistingOrderEntry(jr, o) THEN <<jr, rc>>
  ELSE IF IsCOD(ord) /\ ~Shipped(ord.status) THEN <<jr, rc>>
  ELSE LET id == NewId("sale", o, jr)
           e == Entry(id, id, ord.createdAt, "sale", o, "order", SaleLines(ord))
       IN <<jr \cup {e},
            IF SaleIsCredit(ord) THEN CreateReceivableFromOrder(o, ord, id, rc)
            ELSE rc>>

\* syncOrderToAccounting: the pair <<journal, receivables>> it leaves
SyncOrderToAccounting(o, ord, previousStatus, jr, rc) ==
  IF ~ExistingOrderEntry(jr, o)
  THEN IF IsBankTransfer(ord) THEN CreateSaleJournalEntry(o, ord, jr, rc)
       ELSE IF IsCOD(ord) /\ Shipped(ord.status)
       THEN CreateSaleJournalEntry(o, ord, jr, rc)
       ELSE IF IsCOD(ord) /\ ~Shipped(ord.status) THEN <<jr, rc>>
       ELSE IF ord.status \in {"paid", "delivered", "processing"}
       THEN CreateSaleJournalEntry(o, ord, jr, rc)
       ELSE <<jr, rc>>
  ELSE <<jr, rc>>

\* updateReceivableOnPayment
UpdateReceivableOnPayment(o, paymentAmount, rc) ==
  IF ~\E r \in rc : r.order = o THEN rc
  ELSE LET r == CHOOSE x \in rc : x.order = o
       IN (rc \ {r}) \cup
          {Debt(r.journalEntry, r.partner, r.order, r.originalAmount,
                Max(0, r.remainingAmount - paymentAmount))}

\* ---------------------------------------------------------------- COGS
\* a lookup keyed on the entry type instead of the 632 line
CogsPostedByType(jr, o) ==
  \E e \in jr : e.sourceId = o /\ e.sourceType = "order"
                 /\ e.entryType = "cogs" /\ e.status = "posted"

CogsPosted(jr, o) ==
  \E e \in jr : e.sourceId = o /\ e.sourceType = "order"
                 /\ HasLineOn(e, 632) /\ e.status = "posted"

RECURSIVE TotalCOGS(_)
TotalCOGS(items) ==
  IF items = << >> THEN 0
  ELSE LET it == Head(items)
       IN (IF it.quantity <= 0 \/ it.product \notin Products THEN 0
           ELSE ProductCost(it.product) * it.quantity) + TotalCOGS(Tail(items))

RECURSIVE StockAfter(_, _)
StockAfter(items, st) ==
  IF items = << >> THEN st
  ELSE LET it == Head(items)
       IN IF it.quantity <= 0 \/ it.product \notin Products
          THEN StockAfter(Tail(items), st)
          ELSE StockAfter(Tail(items),
                 [st EXCEPT ![it.product] = Max(0, st[it.product] - it.quantity)])

\* postCOGSEntry(orderId, userId, session): what it returns and leaves behind.
\* Without a session the stock updates made before a throw stay.
PostCOGSEntry(o, ord, jr, st, accs, session) ==
  IF ord.status = "none"
  THEN [result |-> "error", journal |-> jr, stock |-> st]
  ELSE IF CogsPosted(jr, o)
  THEN [result |-> "existing", journal |-> jr, stock |-> st]
  ELSE IF ord.items = << >>
  THEN [result |-> "error", journal |-> jr, stock |-> st]
  ELSE IF TotalCOGS(ord.items) <= 0 \/ ~({632, 156} \subseteq AccountCodes(accs))
  THEN [result |-> "error", journal |-> jr,
        stock |-> IF session THEN st ELSE StockAfter(ord.items, st)]
  ELSE LET id == NewId("cogs", o, jr)
           lines == <<Line(632, TotalCOGS(ord.items), 0),
                      Line(156, 0, TotalCOGS(ord.items))>>
       IN IF Unbalanced(lines)
          THEN [result |-> "error", journal |-> jr,
                stock |-> IF session THEN st ELSE StockAfter(ord.items, st)]
          ELSE [result |-> "created",
                journal |-> jr \cup {Entry(id, id, ord.createdAt, "inventory", o, "order", lines)},
                stock |-> StockAfter(ord.items, st)]

\* postCOGSEntry(orderId, userId) called without a session, await by await.
\* First the order and existing-entry lookups
CogsCheck(r, o) ==
  /\ requests[r].pc = "idle"
  /\ requests' = [requests EXCEPT ![r] =
       IF orders[o].status = "none" THEN Request("cogs", "done", o, {}, "error")
       ELSE IF CogsPosted(journal, o) THEN Request("cogs", "done", o, {}, "existing")
       ELSE IF orders[o].items = << >> THEN Request("cogs", "done", o, {}, "error")
       ELSE Request("cogs", "stock", o, {}, "none")]
  /\ UNCHANGED <<accounts, journal, receivables, payables, orders, stock, assets,
                 periods, response, partners,
                 coupons, couponOrders>>

\* then the item loop: Product.findById and findByIdAndUpdate of each item
CogsStock(r) ==
  LET req == requests[r]
  IN /\ req.op = "cogs" /\ req.pc = "stock"
     /\ stock' = StockAfter(orders[req.key].items, stock)
     /\ requests' = [requests EXCEPT ![r] = Request("cogs", "save", req.key, {}, "none")]
     /\ UNCHANGED <<accounts, journal, receivables, payables, orders, assets,
                    periods, response, partners,
                    coupons, couponOrders>>

\* then the total and account checks and journalEntry.save()
CogsSave(r) ==
  LET req == requests[r]
      o == req.key
      items == orders[o].items
      id == NewId("cogs", o, journal)
      lines == <<Line(632, TotalCOGS(items), 0), Line(156, 0, TotalCOGS(items))>>
      failed == \/ TotalCOGS(items) <= 0
                \/ ~({632, 156} \subseteq AccountCodes(accounts))
                \/ Unbalanced(lines)
  IN /\ req.op = "cogs" /\ req.pc = "save"
     /\ journal' = IF failed THEN journal
                   ELSE journal \cup {Entry(id, id, orders[o].createdAt,
                                            "inventory", o, "order", lines)}
     /\ requests' = [requests EXCEPT ![r] =
          Request("cogs", "done", o, {}, IF failed THEN "error" ELSE "created")]
     /\ UNCHANGED <<accounts, receivables, payables, orders, stock, assets,
                    periods, response, partners,
                    coupons, couponOrders>>

\* createPaymentReceipt: the pair <<journal, receivables>> it leaves
CreatePaymentReceipt(o, ord, paymentAmount, today, jr, rc) ==
  LET id == NewId("receipt", o, jr)
      lines == <<Line(IF IsCOD(ord) THEN 111 ELSE 1121, paymentAmount, 0),
                 Line(131, 0, paymentAmount)>>
  IN <<jr \cup {Entry(id, id, today, "payment", o, "order", lines)},
       UpdateReceivableOnPayment(o, paymentAmount, rc)>>

\* ------------------------------------------------------- order handlers
Resp(op, key, result, cogs) ==
  [op |-> op, key |-> key, result |-> result, cogs |-> cogs]

\* amounts a caller may hand to updateReceivableOnPayment (no validation there)
PaymentAmounts == {-1, 0} \cup Amounts

\* POST /api/checkout: the order is stored, then synced to the ledger
Checkout(o, pm, total, items, today) ==
  /\ orders[o].status = "none"
  /\ LET ord == [status |-> "pending", paymentMethod |-> pm, finalTotal |-> total,
                 items |-> items, createdAt |-> today]
         synced == SyncOrderToAccounting(o, ord, "none", journal, receivables)
     IN /\ orders' = [orders EXCEPT ![o] = ord]
        /\ journal' = synced[1]
        /\ receivables' = synced[2]
  /\ response' = Resp("checkout", o, "ok", "none")
  /\ UNCHANGED <<accounts, payables, stock, assets, periods, requests, partners,
                 coupons, couponOrders>>

\* the status and payment-method constraints of PATCH /api/orders/:id
PatchRejected(prev, st, pm) ==
  \/ prev.status = "none"
  \/ /\ prev.status \in {"paid", "shipped", "delivered"}
     /\ pm # "undefined" /\ pm # prev.paymentMethod
  \/ /\ prev.status \in {"paid", "shipped", "delivered"} /\ st = "pending"
  \/ /\ prev.status = "delivered" /\ st \in {"shipped", "paid", "pending"}
  \/ /\ prev.status = "shipped" /\ st \in {"paid", "pending"}

PatchedStatus(prev, st, pm) ==
  IF st # "undefined" THEN st
  ELSE IF pm = "Sepay" /\ prev.status = "pending" THEN "paid"
  ELSE prev.status

\* PATCH /api/orders/:id with a body of status, paymentMethod and finalTotal
\* ("undefined" / 0 stand for an absent field): update, sync on a status
\* change, then the COGS trigger on the first move to shipped/delivered.
PatchOrder(o, st, pm, ft) ==
  LET prev == orders[o] IN
  IF PatchRejected(prev, st, pm)
  THEN /\ response' = Resp("patch", o, "rejected", "none")
       /\ UNCHANGED <<accounts, journal, receivables, payables, orders, stock,
                      assets, periods, requests, partners,
                      coupons, couponOrders>>
  ELSE LET newStatus == PatchedStatus(prev, st, pm)
           updated == [prev EXCEPT !.status = newStatus,
                         !.paymentMethod = IF pm = "undefined" THEN @ ELSE pm,
                         !.finalTotal = IF ft = 0 THEN @ ELSE ft]
           synced == IF newStatus # prev.status
                     THEN SyncOrderToAccounting(o, updated, prev.status,
                                                journal, receivables)
                     ELSE <<journal, receivables>>
           trigger == Shipped(newStatus) /\ ~Shipped(prev.status)
           cogs == PostCOGSEntry(o, updated, synced[1], stock, accounts, FALSE)
       IN /\ orders' = [orders EXCEPT ![o] = updated]
          /\ receivables' = synced[2]
          /\ journal' = IF trigger THEN cogs.journal ELSE synced[1]
          /\ stock' = IF trigger THEN cogs.stock ELSE stock
          /\ response' = Resp("patch", o, "ok",
                               IF trigger THEN cogs.result ELSE "none")
          /\ UNCHANGED <<accounts, payables, assets, periods, requests, partners,
                         coupons, couponOrders>>

\* POST /api/orders/post-cogs: postCOGSEntry inside a transaction
PostCogsRoute(o) ==
  LET cogs == PostCOGSEntry(o, orders[o], journal, stock, accounts, TRUE)
  IN /\ journal' = cogs.journal
     /\ stock' = cogs.stock
     /\ response' = Resp("post-cogs", o,
                          IF cogs.result = "error" THEN "rejected" ELSE "ok",
                          cogs.result)
     /\ UNCHANGED <<accounts, receivables, payables, orders, assets, periods,
                    requests, partners,
                    coupons, couponOrders>>

\* syncOrderToAccounting invoked on a stored order (payment callbacks)
SyncOrder(o) ==
  /\ orders[o].status # "none"
  /\ LET synced == SyncOrderToAccounting(o, orders[o], orders[o].status,
                                         journal, receivables)
     IN journal' = synced[1] /\ receivables' = synced[2]
  /\ response' = Resp("sync", o, "ok", "none")
  /\ UNCHANGED <<accounts, payables, orders, stock, assets, periods, requests, partners,
                 coupons, couponOrders>>

\* createSaleJournalEntry invoked on a stored order
CreateSale(o) ==
  /\ orders[o].status # "none"
  /\ LET posted == CreateSaleJournalEntry(o, orders[o], journal, receivables)
     IN journal' = posted[1] /\ receivables' = posted[2]
  /\ response' = Resp("sale", o, "ok", "none")
  /\ UNCHANGED <<accounts, payables, orders, stock, assets, periods, requests, partners,
                 coupons, couponOrders>>

\* createPaymentReceipt invoked on a stored order with a collected amount
PaymentReceipt(o, amount, today) ==
  /\ orders[o].status # "none"
  /\ Cardinality({e \in OrderEntries(journal, o) : e.entryType = "payment"})
       < MaxReceipts
  /\ LET paid == CreatePaymentReceipt(o, orders[o], amount, today, journal,
                                      receivables)
     IN journal' = paid[1] /\ receivables' = paid[2]
  /\ response' = Resp("receipt", o, "ok", "none")
  /\ UNCHANGED <<accounts, payables, orders, stock, assets, periods, requests, partners,
                 coupons, couponOrders>>

\* updateReceivableOnPayment invoked on a stored order
ReceivablePayment(o, amount) ==
  /\ orders[o].status # "none"
  /\ \A r \in receivables : r.remainingAmount <= MaxAmount
  /\ receivables' = UpdateReceivableOnPayment(o, amount, receivables)
  /\ response' = Resp("payment", o, "ok", "none")
  /\ UNCHANGED <<accounts, journal, payables, orders, stock, assets, periods,
                 requests, partners,
                 coupons, couponOrders>>

\* ------------------------------------------------------- fixed assets
NoAsset ==
  [status |-> "none", originalCost |-> 0, usefulLife |-> 0,
   monthlyDepreciation |-> 0, accumulatedDepreciation |-> 0, bookValue |-> 0,
   depreciationHistory |-> << >>]

\* useful lives for which originalCost / usefulLife is a whole amount
Lives(cost) == {l \in 1..cost : cost % l = 0}

\* FixedAsset.monthlyDepreciation as the asset model may have stored it:
\* absent (0) or some rounding of the straight-line amount
MonthlyChoices(cost) == 0..cost

\* POST /fixed-assets
CreateFixedAsset(a, cost, life, monthly, purchaseAccountCode, purchaseDate) ==
  /\ assets[a].status = "none"
  /\ IF cost <= 0 \/ life <= 0 \/ purchaseAccountCode \notin AccountCodes(accounts)
     THEN /\ response' = Resp("fixed-asset", a, "rejected", "none")
          /\ UNCHANGED <<journal, assets, partners,
                         coupons, couponOrders>>
     ELSE LET id == NewId("purchase", a, journal)
              lines == <<Line(211, cost, 0), Line(purchaseAccountCode, 0, cost)>>
          IN /\ assets' = [assets EXCEPT ![a] =
                  [status |-> "active", originalCost |-> cost, usefulLife |-> life,
                   monthlyDepreciation |-> monthly, accumulatedDepreciation |-> 0,
                   bookValue |-> cost, depreciationHistory |-> << >>]]
             /\ journal' = journal \cup
                  {Entry(id, id, purchaseDate, "purchase", a, "fixed_asset", lines)}
             /\ response' = Resp("fixed-asset", a, "ok", "none")
  /\ UNCHANGED <<accounts, receivables, payables, orders, stock, periods,
                 requests, partners,
                 coupons, couponOrders>>

HistoryMonths(asset) ==
  {asset.depreciationHistory[i].month : i \in 1..Len(asset.depreciationHistory)}

DepReference(m, a) == <<"DEP", m, a>>

\* only the fully-depreciated test
FullyDepreciated(asset, a, m, jr) ==
  asset.accumulatedDepreciation >= asset.originalCost

\* the tests that make a run skip an asset: the month is in its history, the
\* asset is fully depreciated, or the entry DEP-<month>-<asset> is stored
DepreciationSkipped(asset, a, m, jr) ==
  \/ m \in HistoryMonths(asset)
  \/ asset.accumulatedDepreciation >= asset.originalCost
  \/ \E e \in jr : e.referenceNo = DepReference(m, a)

\* asset.monthlyDepreciation || (asset.originalCost / asset.usefulLife)
MonthlyDepreciation(asset) ==
  IF asset.monthlyDepreciation # 0 THEN asset.monthlyDepreciation
  ELSE asset.originalCost \div asset.usefulLife

\* the monthly amount without the cap of the remaining value
DepreciationUncapped(asset) == MonthlyDepreciation(asset)

\* Math.min(monthlyDepreciation, remainingValue)
DepreciationAmount(asset) ==
  Min(MonthlyDepreciation(asset),
      asset.originalCost - asset.accumulatedDepreciation)

\* the asset loop of a depreciation run from asset a on; st carries the
\* journal and the assets written so far
RECURSIVE DepreciateFrom(_, _, _, _, _)
DepreciateFrom(a, m, st, needAccounts, accs) ==
  IF a > MaxAssets THEN st
  ELSE LET asset == st.assets[a]
           amount == DepreciationAmount(asset)
           id == NewId("dep", a, st.journal)
           lines == <<Line(642, amount, 0), Line(214, 0, amount)>>
           accumulated == asset.accumulatedDepreciation + amount
       IN IF \/ asset.status # "active"
             \/ DepreciationSkipped(asset, a, m, st.journal)
             \/ amount <= 0
             \/ needAccounts /\ ~({642, 214} \subseteq AccountCodes(accs))
          THEN DepreciateFrom(a + 1, m, st, needAccounts, accs)
          ELSE DepreciateFrom(a + 1, m,
                 [journal |-> st.journal \cup
                    {Entry(id, DepReference(m, a), m, "depreciation", a,
                           "depreciation", lines)},
                  assets |-> [st.assets EXCEPT ![a] =
                    [asset EXCEPT !.accumulatedDepreciation = accumulated,
                       !.bookValue = asset.originalCost - accumulated,
                       !.depreciationHistory =
                          Append(@, [month |-> m, amount |-> amount,
                                     journalEntry |-> id])]]],
                 needAccounts, accs)

\* POST /depreciation/calculate for month m
CalculateDepreciation(m) ==
  /\ LET st == DepreciateFrom(1, m, [journal |-> journal, assets |-> assets],
                              FALSE, accounts)
     IN journal' = st.journal /\ assets' = st.assets
  /\ response' = Resp("depreciation", m, "ok", "none")
  /\ UNCHANGED <<accounts, receivables, payables, orders, stock, periods,
                 requests, partners,
                 coupons, couponOrders>>

\* calculateMonthlyDepreciation, the batch script, run in month m
CalculateMonthlyDepreciation(m) ==
  /\ LET st == DepreciateFrom(1, m, [journal |-> journal, assets |-> assets],
                              TRUE, accounts)
     IN journal' = st.journal /\ assets' = st.assets
  /\ response' = Resp("depreciation-script", m, "ok", "none")
  /\ UNCHANGED <<accounts, receivables, payables, orders, stock, periods,
                 requests, partners,
                 coupons, couponOrders>>

\* ------------------------------------------------------- ledger routes
\* POST /accounts
CreateAccount(code, accountType) ==
  /\ IF code \in AccountCodes(accounts)
     THEN /\ response' = Resp("account", code, "rejected", "none")
          /\ UNCHANGED accounts
     ELSE /\ accounts' = accounts \cup {[code |-> code, accountType |-> accountType]}
          /\ response' = Resp("account", code, "ok", "none")
  /\ UNCHANGED <<journal, receivables, payables, orders, stock, assets, periods,
                 requests, partners,
                 coupons, couponOrders>>

\* the validation shared by the routes that take lines from the request:
\* balance within 0.01 and every account code in the chart
LinesRejected(lines, accs) ==
  Unbalanced(lines) \/ ~(LineCodes(lines) \subseteq AccountCodes(accs))

\* POST /journal-entries
PostJournalEntry(lines, date) ==
  /\ IF lines = << >> \/ LinesRejected(lines, accounts)
     THEN /\ response' = Resp("journal-post", 0, "rejected", "none")
          /\ UNCHANGED journal
     ELSE LET id == NewId("manual", 0, journal)
          IN /\ journal' = journal \cup
                  {Entry(id, id, date, "manual", 0, "none", lines)}
             /\ response' = Resp("journal-post", id[3], "ok", "none")
  /\ UNCHANGED <<accounts, receivables, payables, orders, stock, assets, periods,
                 requests, partners,
                 coupons, couponOrders>>

\* PUT /journal-entries/:id with a body of lines and date (<< >> / 0 stand
\* for an absent field)
PutJournalEntry(e, lines, date) ==
  /\ e \in journal
  /\ IF lines # << >> /\ LinesRejected(lines, accounts)
     THEN /\ response' = Resp("journal-put", e.id[3], "rejected", "none")
          /\ UNCHANGED journal
     ELSE /\ journal' = (journal \ {e}) \cup
               {[e EXCEPT !.lines = IF lines = << >> THEN @ ELSE lines,
                          !.date = IF date = 0 THEN @ ELSE date]}
          /\ response' = Resp("journal-put", e.id[3], "ok", "none")
  /\ UNCHANGED <<accounts, receivables, payables, orders, stock, assets, periods,
                 requests, partners,
                 coupons, couponOrders>>

\* a lookup of the receivables alone
ReferencedByReceivable(e, rc, py) == \E d \in rc : d.journalEntry = e.id

\* Receivable.findOne({journalEntry: id}) || Payable.findOne({journalEntry: id})
Referenced(e, rc, py) == \E d \in rc \cup py : d.journalEntry = e.id

\* DELETE /journal-entries/:id
DeleteJournalEntry(e) ==
  /\ e \in journal
  /\ IF Referenced(e, receivables, payables)
     THEN /\ response' = Resp("journal-delete", e.id[3], "rejected", "none")
          /\ UNCHANGED journal
     ELSE /\ journal' = journal \ {e}
          /\ response' = Resp("journal-delete", e.id[3], "ok", "none")
  /\ UNCHANGED <<accounts, receivables, payables, orders, stock, assets, periods,
                 requests, partners,
                 coupons, couponOrders>>

\* POST /receivables
PostReceivable(e, originalAmount) ==
  /\ e \in journal
  /\ IF originalAmount = 0 \/ \E r \in receivables : r.journalEntry = e.id
     THEN /\ response' = Resp("receivable", e.id[3], "rejected", "none")
          /\ UNCHANGED receivables
     ELSE /\ receivables' = receivables \cup
               {Debt(e.id, <<"partner", 1>>, 0, originalAmount, originalAmount)}
          /\ response' = Resp("receivable", e.id[3], "ok", "none")
  /\ UNCHANGED <<accounts, journal, payables, orders, stock, assets, periods,
                 requests, partners,
                 coupons, couponOrders>>

\* categoryMapping of post-entry: the account of a category for a type, 0
\* where the table holds null; the second 'Khac' key replaces the first and
\* an unknown category falls back to it
Categories == {"Ban hang", "Dau tu", "Nguyen vat lieu", "Luong nhan vien",
               "Marketing", "Khac"}

CategoryAccount(category, type) ==
  IF type = "income"
  THEN CASE category \in {"Ban hang", "Dich vu"} -> 511
         [] category = "Dau tu" -> 711
         [] OTHER -> 0
  ELSE CASE category = "Nguyen vat lieu" -> 156
         [] category = "Marketing" -> 641
         [] category \in {"Luong nhan vien", "Van chuyen", "Dien nuoc",
                          "Thue mat bang", "Bao tri"} -> 642
         [] category \in {"Ban hang", "Dich vu", "Dau tu"} -> 0
         [] OTHER -> 811

\* a credit side that follows the payment status for every expense
CreditAccountCash(type, category, paymentStatus) ==
  IF type = "income"
  THEN IF paymentStatus = "paid" /\ category \in {"Ban hang", "Dich vu"}
       THEN 3387
       ELSE CategoryAccount(category, type)
  ELSE IF paymentStatus = "paid" THEN 1121 ELSE 331

CreditAccountCode(type, category, paymentStatus) ==
  IF type = "income"
  THEN IF paymentStatus = "paid" /\ category \in {"Ban hang", "Dich vu"}
       THEN 3387
       ELSE CategoryAccount(category, type)
  ELSE IF category = "Luong nhan vien" THEN 334
       ELSE IF paymentStatus = "paid" THEN 1121
       ELSE 331

DebitAccountCode(type, category, paymentStatus) ==
  IF type = "income"
  THEN IF paymentStatus = "paid" THEN 1121 ELSE 131
  ELSE CategoryAccount(category, type)

IsDebt(type, category, paymentStatus) ==
  IF type = "income" THEN paymentStatus # "paid"
  ELSE paymentStatus = "unpaid"
       /\ CreditAccountCode(type, category, paymentStatus) = 331

\* accountCodeDefinitions: the codes post-entry provisions when missing
AccountCodeDefinitions ==
  { [code |-> 111, accountType |-> "asset"],
    [code |-> 1121, accountType |-> "asset"],
    [code |-> 131, accountType |-> "asset"],
    [code |-> 156, accountType |-> "asset"],
    [code |-> 331, accountType |-> "liability"],
    [code |-> 334, accountType |-> "liability"],
    [code |-> 3387, accountType |-> "liability"],
    [code |-> 511, accountType |-> "revenue"],
    [code |-> 641, accountType |-> "expense"],
    [code |-> 642, accountType |-> "expense"],
    [code |-> 711, accountType |-> "revenue"],
    [code |-> 811, accountType |-> "expense"] }

\* the chart after the account loop of post-entry over the given codes
Provisioned(codes, accs) ==
  accs \cup {d \in AccountCodeDefinitions :
               d.code \in codes /\ d.code \notin AccountCodes(accs)}

\* ---------------------------------------------------------- partners
\* a User document of role customer or supplier
Partner(id, name, role, phone) ==
  [id |-> id, name |-> name, role |-> role, phone |-> phone]

\* String.prototype.trim and the 'i' flag of the name regex, on the names
\* the requests carry
Trim(name) == IF name = " An" THEN "An" ELSE IF name = " " THEN "" ELSE name

Lower(name) == IF name \in {"An", "AN"} THEN "an" ELSE name

\* /^[0-9]{10,11}$/ on the phones the requests carry
PhoneValid(phone) == phone \in {"0911111111", "0922222222", "0987654321"}

\* the value of the handler's trimmedPartnerPhone at the findOrCreatePartner
\* call: the validation block declares a second trimmedPartnerPhone with
\* let and assigns that one, the binding of the handler scope stays null
\* ("" stands for null)
TrimmedPartnerPhone(partnerPhone) == ""

\* findOrCreateDefaultPartner: the pair <<partner, users>>
FindOrCreateDefaultPartner(type, users) ==
  LET role == IF type = "income" THEN "customer" ELSE "supplier"
      defaultName == IF type = "income" THEN "Partner_Default_Customer"
                     ELSE "Partner_Default_Supplier"
      found == {u \in users : u.name = defaultName /\ u.role = role}
      created == Partner(<<"partner", Cardinality(users) + 1>>, defaultName, role,
                         IF type = "income" THEN "0900000000" ELSE "0900000001")
  IN IF found # {} THEN <<CHOOSE u \in found : TRUE, users>>
     ELSE <<created, users \cup {created}>>

\* findOrCreatePartner: the pairs <<partner, users>> it may leave.  A match
\* on the name takes the phone of the request when one is passed; without a
\* match a partner is created with the passed phone or the placeholder
\* 0987654321, and a save that collides on the phone ends, after the
\* retries, at the default partner
FindOrCreatePartner(partnerName, partnerPhone, type, users) ==
  LET trimmedName == Trim(partnerName)
      role == IF type = "income" THEN "customer" ELSE "supplier"
      matches == {u \in users : Lower(u.name) = Lower(trimmedName) /\ u.role = role}
      holders == {u \in users : u.phone = partnerPhone}
      finalPhone == IF partnerPhone # "" THEN partnerPhone ELSE "0987654321"
      created == Partner(<<"partner", Cardinality(users) + 1>>, trimmedName, role,
                         finalPhone)
  IN IF matches # {}
     THEN {LET u == m
               updated == IF partnerPhone # "" /\ u.phone # partnerPhone
                          THEN [u EXCEPT !.phone = partnerPhone] ELSE u
           IN <<updated, (users \ {u}) \cup {updated}>> : m \in matches}
     ELSE IF partnerPhone # "" /\ \E u \in holders : u.role = role
     THEN {<<u, users>> : u \in {h \in holders : h.role = role}}
     ELSE IF partnerPhone # "" /\ holders # {}
     THEN {FindOrCreateDefaultPartner(type, users)}
     ELSE IF \E u \in users : u.phone = finalPhone
     THEN {<<created, users \cup {created}>>,
           FindOrCreateDefaultPartner(type, users)}
     ELSE {<<created, users \cup {created}>>}

\* POST /post-entry; edit = NoEntry posts a new entry, otherwise edit is the
\* entry to rewrite (journalEntryId); partnerName and partnerPhone are "" when
\* the request carries none (the due date comes with the name)
PostEntryFor(type, category, paymentStatus, amount, date, partnerName, partnerPhone, edit) ==
  LET debit == DebitAccountCode(type, category, paymentStatus)
      credit == CreditAccountCode(type, category, paymentStatus)
      chart == Provisioned({debit, credit}, accounts)
      lines == <<Line(debit, amount, 0), Line(credit, 0, amount)>>
      id == IF edit = NoEntry THEN NewId("je", 0, journal) ELSE edit.id
      entry == IF edit = NoEntry
               THEN Entry(id, id, date,
                          IF type = "income" THEN "receipt" ELSE "payment",
                          0, "MANUAL", lines)
               ELSE [edit EXCEPT !.date = date, !.lines = lines,
                       !.entryType = IF type = "income" THEN "receipt"
                                     ELSE "payment"]
      kept(debts) == IF edit = NoEntry THEN debts
                     ELSE {d \in debts : d.journalEntry # id}
      owed == IsDebt(type, category, paymentStatus) /\ paymentStatus = "unpaid"
                /\ Trim(partnerName) # ""
  IN /\ edit \in journal \cup {NoEntry}
     /\ IF \/ amount <= 0
           \/ paymentStatus = "unpaid" /\ Trim(partnerName) = ""
           \/ paymentStatus = "unpaid" /\ Trim(partnerPhone) # ""
                /\ ~PhoneValid(Trim(partnerPhone))
           \/ CategoryAccount(category, type) = 0
           \/ ~({debit, credit} \subseteq AccountCodes(chart))
           \/ Unbalanced(lines)
        THEN /\ response' = Resp("post-entry", 0, "rejected", "none")
             /\ UNCHANGED <<accounts, journal, receivables, payables, partners,
                            coupons, couponOrders>>
        ELSE /\ accounts' = chart
             /\ journal' = (IF edit = NoEntry THEN journal ELSE journal \ {edit})
                              \cup {entry}
             /\ response' = Resp("post-entry", id[3], "ok", "none")
             /\ IF owed
                THEN \E found \in FindOrCreatePartner(partnerName,
                                    TrimmedPartnerPhone(partnerPhone), type, partners) :
                       LET debt == {Debt(id, found[1].id, 0, amount, amount)}
                       IN /\ partners' = found[2]
                          /\ receivables' = kept(receivables) \cup
                               (IF type = "income" /\ debit = 131 THEN debt ELSE {})
                          /\ payables' = kept(payables) \cup
                               (IF type = "expense" /\ credit = 331 THEN debt ELSE {})
                ELSE /\ partners' = partners
                     /\ receivables' = kept(receivables)
                     /\ payables' = kept(payables)
     /\ UNCHANGED <<orders, stock, assets, periods, coupons, couponOrders>>

\* the request with the partner name "An" and no phone, or with no partner
PostEntryWrites(type, category, paymentStatus, amount, date, partner, edit) ==
  PostEntryFor(type, category, paymentStatus, amount, date,
               IF partner THEN "An" ELSE "", "", edit)

\* the request handled without another request in between
PostEntry(type, category, paymentStatus, amount, date, partner, edit) ==
  /\ PostEntryWrites(type, category, paymentStatus, amount, date, partner, edit)
  /\ UNCHANGED requests

\* the request handled in one piece, kept with its body by the request id
PostEntryRequest(r, type, category, paymentStatus, partnerName, partnerPhone) ==
  /\ requests[r].pc = "idle"
  /\ PostEntryFor(type, category, paymentStatus, 1, 1, partnerName, partnerPhone,
                  NoEntry)
  /\ requests' = [requests EXCEPT ![r] =
       Request("post-entry", "done",
               <<type, category, paymentStatus, partnerName, partnerPhone>>, {},
               response'.result)]

\* POST /post-entry up to the account lookups: the codes the request found
\* missing and is about to create through ensureAccountExists
PostEntryRead(r, type, category, paymentStatus) ==
  LET debit == DebitAccountCode(type, category, paymentStatus)
      credit == CreditAccountCode(type, category, paymentStatus)
      missing == {debit, credit} \ AccountCodes(accounts)
  IN /\ requests[r].pc = "idle"
     /\ IF \/ CategoryAccount(category, type) = 0
           \/ ~(missing \subseteq AccountCodes(AccountCodeDefinitions))
        THEN /\ response' = Resp("post-entry", 0, "rejected", "none")
             /\ requests' = [requests EXCEPT ![r] =
                  Request("post-entry", "done", <<type, category, paymentStatus>>,
                          {}, "rejected")]
        ELSE /\ requests' = [requests EXCEPT ![r] =
                  Request("post-entry", "save", <<type, category, paymentStatus>>,
                          missing, "none")]
             /\ UNCHANGED response
     /\ UNCHANGED <<accounts, journal, receivables, payables, orders, stock,
                    assets, periods, partners,
                    coupons, couponOrders>>

\* the rest of POST /post-entry: account.save() of the codes found missing,
\* the entry and the debt record, and the commit.  A code that another
\* request has created in between violates the unique key on Account.code:
\* save() throws E11000, nothing catches it before the outer catch, which
\* aborts the transaction and answers 400
PostEntrySave(r) ==
  LET req == requests[r]
  IN /\ req.op = "post-entry" /\ req.pc = "save"
     /\ IF req.seen \cap AccountCodes(accounts) # {}
        THEN /\ response' = Resp("post-entry", 0, "rejected", "none")
             /\ UNCHANGED <<accounts, journal, receivables, payables, orders,
                            stock, assets, periods, partners,
                            coupons, couponOrders>>
        ELSE PostEntryWrites(req.key[1], req.key[2], req.key[3], 1, 1, TRUE, NoEntry)
     /\ requests' = [requests EXCEPT ![r] =
          Request("post-entry", "done", req.key, req.seen, response'.result)]

\* POST /internal-transfer
InternalTransfer(fromAccountCode, toAccountCode, amount, date) ==
  /\ IF \/ fromAccountCode = toAccountCode
        \/ amount <= 0
        \/ ~({fromAccountCode, toAccountCode} \subseteq AccountCodes(accounts))
        \/ \E a \in accounts : /\ a.code \in {fromAccountCode, toAccountCode}
                                /\ a.accountType # "asset"
        \/ Unbalanced(<<Line(toAccountCode, amount, 0),
                        Line(fromAccountCode, 0, amount)>>)
     THEN /\ response' = Resp("transfer", 0, "rejected", "none")
          /\ UNCHANGED journal
     ELSE LET id == NewId("transfer", 0, journal)
          IN /\ journal' = journal \cup
                  {Entry(id, id, date, "transfer", 0, "internal_transfer",
                         <<Line(toAccountCode, amount, 0),
                           Line(fromAccountCode, 0, amount)>>)}
             /\ response' = Resp("transfer", id[3], "ok", "none")
  /\ UNCHANGED <<accounts, receivables, payables, orders, stock, assets, periods,
                 requests, partners,
                 coupons, couponOrders>>

\* POST /adjusting-entry
AdjustingEntry(lines, date) ==
  /\ IF Len(lines) < 2 \/ LinesRejected(lines, accounts)
     THEN /\ response' = Resp("adjusting", 0, "rejected", "none")
          /\ UNCHANGED journal
     ELSE LET id == NewId("adjusting", 0, journal)
          IN /\ journal' = journal \cup
                  {Entry(id, id, date, "adjusting", 0, "adjusting_entry", lines)}
             /\ response' = Resp("adjusting", id[3], "ok", "none")
  /\ UNCHANGED <<accounts, receivables, payables, orders, stock, assets, periods,
                 requests, partners,
                 coupons, couponOrders>>

\* POST /transactions (the legacy route): an unpaid transaction posts the
\* entry 131/511 or 632/331 and its debt record.  The seeded codes 131, 511,
\* 331 and 632 are never removed from the chart, so the by-type fallbacks of
\* the route are not taken.  Transaction documents carry no ledger state.
PostTransaction(type, amount, date, paymentStatus) ==
  /\ IF amount <= 0
     THEN /\ response' = Resp("transaction", 0, "rejected", "none")
          /\ UNCHANGED <<journal, receivables, payables, partners,
                         coupons, couponOrders>>
     ELSE IF paymentStatus # "unpaid"
             \/ ~({131, 511, 331, 632} \subseteq AccountCodes(accounts))
     THEN /\ response' = Resp("transaction", 0, "ok", "none")
          /\ UNCHANGED <<journal, receivables, payables, partners,
                         coupons, couponOrders>>
     ELSE LET id == NewId("txn", 0, journal)
              lines == IF type = "income"
                       THEN <<Line(131, amount, 0), Line(511, 0, amount)>>
                       ELSE <<Line(331, 0, amount), Line(632, amount, 0)>>
              debt == {Debt(id, <<"partner", 0>>, 0, amount, amount)}
          IN /\ journal' = journal \cup
                  {Entry(id, id, date,
                         IF type = "income" THEN "receipt" ELSE "payment",
                         id[3], "transaction", lines)}
             /\ receivables' = IF type = "income" THEN receivables \cup debt
                               ELSE receivables
             /\ payables' = IF type = "expense" THEN payables \cup debt
                            ELSE payables
             /\ response' = Resp("transaction", id[3], "ok", "none")
  /\ UNCHANGED <<accounts, orders, stock, assets, periods, requests, partners,
                 coupons, couponOrders>>

\* ------------------------------------------------------- period closing
NoPeriod ==
  [status |-> "none", startDate |-> 0, endDate |-> 0, lockDate |-> 0,
   closedAt |-> 0, closedBy |-> 0]

\* POST /periods
CreatePeriod(p, startDate, endDate) ==
  /\ periods[p].status = "none"
  /\ periods' = [periods EXCEPT ![p] =
                   [NoPeriod EXCEPT !.status = "open", !.startDate = startDate,
                                    !.endDate = endDate]]
  /\ response' = Resp("period", p, "ok", "none")
  /\ UNCHANGED <<accounts, journal, receivables, payables, orders, stock, assets,
                 requests, partners,
                 coupons, couponOrders>>

\* $match {status: 'posted', date: {$gte: startDate, $lte: endDate}}
PostedIn(jr, startDate, endDate) ==
  {e \in jr : e.status = "posted" /\ startDate <= e.date /\ e.date <= endDate}

RevenueClass(code) == LeadingDigit(code) \in {5, 7}

ExpenseClass(code) == LeadingDigit(code) \in {6, 8}

RECURSIVE CreditOn(_, _)
CreditOn(lines, code) ==
  IF lines = << >> THEN 0
  ELSE (IF Head(lines).accountCode = code /\ Head(lines).credit > 0
        THEN Head(lines).credit ELSE 0) + CreditOn(Tail(lines), code)

RECURSIVE DebitOn(_, _)
DebitOn(lines, code) ==
  IF lines = << >> THEN 0
  ELSE (IF Head(lines).accountCode = code /\ Head(lines).debit > 0
        THEN Head(lines).debit ELSE 0) + DebitOn(Tail(lines), code)

\* $group {_id: '$lines.accountCode', totalCredit: {$sum: '$lines.credit'}}
GroupCredit(entries, code) ==
  SumOver(entries, [e \in entries |-> CreditOn(e.lines, code)])

GroupDebit(entries, code) ==
  SumOver(entries, [e \in entries |-> DebitOn(e.lines, code)])

\* the account codes the revenue aggregation returns a group for
RevenueCodes(entries) ==
  {c \in UNION {LineCodes(e.lines) : e \in entries} :
     RevenueClass(c) /\ GroupCredit(entries, c) > 0}

ExpenseCodes(entries) ==
  {c \in UNION {LineCodes(e.lines) : e \in entries} :
     ExpenseClass(c) /\ GroupDebit(entries, c) > 0}

\* the orders in which an aggregation may return its groups
Orderings(S) ==
  {f \in [1..Cardinality(S) -> S] :
     \A i, j \in 1..Cardinality(S) : i # j => f[i] # f[j]}

RevenueClosingLines(entries, order, totalRevenue) ==
  [i \in 1..Len(order) |-> Line(order[i], GroupCredit(entries, order[i]), 0)]
    \o (IF totalRevenue > 0 THEN <<Line(911, 0, totalRevenue)>> ELSE << >>)

ExpenseClosingLines(entries, order, totalExpense) ==
  [i \in 1..Len(order) |-> Line(order[i], 0, GroupDebit(entries, order[i]))]
    \o (IF totalExpense > 0 THEN <<Line(911, totalExpense, 0)>> ELSE << >>)

\* a transfer that always credits retained earnings
ProfitCreditedAlways(netProfit) ==
  IF netProfit = 0 THEN << >>
  ELSE <<Line(911, Abs(netProfit), 0), Line(421, 0, Abs(netProfit))>>

ProfitClosingLines(netProfit) ==
  IF netProfit > 0 THEN <<Line(911, netProfit, 0), Line(421, 0, netProfit)>>
  ELSE IF netProfit < 0
  THEN <<Line(421, Abs(netProfit), 0), Line(911, 0, Abs(netProfit))>>
  ELSE << >>

\* a guard that tests a status the period schema does not have
PeriodLocked(period) == period.status = "locked"

PeriodClosed(period) == period.status = "closed"

\* POST /close-period; lockDate 0 stands for an absent field
ClosePeriod(p, lockDate, today, userId) ==
  LET period == periods[p]
      entries == PostedIn(journal, period.startDate, period.endDate)
      revenueCodes == RevenueCodes(entries)
      expenseCodes == ExpenseCodes(entries)
      totalRevenue == SumOver(revenueCodes,
                        [c \in revenueCodes |-> GroupCredit(entries, c)])
      totalExpense == SumOver(expenseCodes,
                        [c \in expenseCodes |-> GroupDebit(entries, c)])
      netProfit == totalRevenue - totalExpense
      n == NewId("closing", p, journal)[3]
      closing(k, lines) ==
        IF lines = << >> THEN {}
        ELSE {Entry(<<"closing", p, n + k>>, <<"closing", p, n + k>>,
                    period.endDate, "closing", 0, "period_closing", lines)}
  IN IF period.status = "none" \/ PeriodClosed(period)
     THEN /\ response' = Resp("close-period", p, "rejected", "none")
          /\ UNCHANGED <<accounts, journal, receivables, payables, orders,
                         stock, assets, periods, requests, partners,
                         coupons, couponOrders>>
     ELSE \E revenueOrder \in Orderings(revenueCodes),
             expenseOrder \in Orderings(expenseCodes) :
            /\ journal' = journal
                 \cup closing(0, RevenueClosingLines(entries, revenueOrder,
                                                     totalRevenue))
                 \cup closing(1, ExpenseClosingLines(entries, expenseOrder,
                                                     totalExpense))
                 \cup closing(2, ProfitClosingLines(netProfit))
            /\ periods' = [periods EXCEPT ![p] =
                 [period EXCEPT !.status = "closed",
                    !.lockDate = IF lockDate = 0 THEN period.endDate ELSE lockDate,
                    !.closedAt = today, !.closedBy = userId]]
            /\ response' = Resp("close-period", p, "ok", "none")
            /\ UNCHANGED <<accounts, receivables, payables, orders, stock, assets,
                           requests, partners,
                           coupons, couponOrders>>

\* POST /close-period inside its transaction, step by step.  First the reads:
\* AccountingPeriod.findById and the aggregations see the snapshot taken here
CloseRead(r, p) ==
  /\ requests[r].pc = "idle"
  /\ IF periods[p].status = "none" \/ PeriodClosed(periods[p])
     THEN /\ response' = Resp("close-period", p, "rejected", "none")
          /\ requests' = [requests EXCEPT ![r] =
               Request("close-period", "done", p, {}, "rejected")]
     ELSE /\ requests' = [requests EXCEPT ![r] =
               Request("close-period", "commit", p, journal, "none")]
          /\ UNCHANGED response
  /\ UNCHANGED <<accounts, journal, receivables, payables, orders, stock, assets,
                 periods, partners,
                 coupons, couponOrders>>

PeriodNeverChanged(period) == FALSE

\* period.save({session}) on a document that another transaction has written
\* since the snapshot throws a write conflict
PeriodChanged(period) == period.status # "open"

\* then the writes and commitTransaction; on a write conflict the catch block
\* aborts the transaction and answers 500
CloseCommit(r) ==
  LET req == requests[r]
      p == req.key
      period == periods[p]
      entries == PostedIn(req.seen, period.startDate, period.endDate)
      revenueCodes == RevenueCodes(entries)
      expenseCodes == ExpenseCodes(entries)
      totalRevenue == SumOver(revenueCodes,
                        [c \in revenueCodes |-> GroupCredit(entries, c)])
      totalExpense == SumOver(expenseCodes,
                        [c \in expenseCodes |-> GroupDebit(entries, c)])
      netProfit == totalRevenue - totalExpense
      used == {e.id[3] : e \in {x \in journal : x.id[1] = "closing" /\ x.id[2] = p}}
      n == CHOOSE i \in 1..(3 * MaxRequests + 1) :
             /\ \A j \in used : j < i
             /\ \A k \in 1..(i - 1) : \E j \in used : j >= k
      closing(k, lines) ==
        IF lines = << >> THEN {}
        ELSE {Entry(<<"closing", p, n + k>>, <<"closing", p, n + k>>,
                    period.endDate, "closing", 0, "period_closing", lines)}
  IN /\ req.op = "close-period" /\ req.pc = "commit"
     /\ IF PeriodChanged(period)
        THEN /\ response' = Resp("close-period", p, "error", "none")
             /\ requests' = [requests EXCEPT ![r] =
                  Request("close-period", "done", p, {}, "error")]
             /\ UNCHANGED <<journal, periods, partners,
                            coupons, couponOrders>>
        ELSE \E revenueOrder \in Orderings(revenueCodes),
                expenseOrder \in Orderings(expenseCodes) :
               /\ journal' = journal
                    \cup closing(0, RevenueClosingLines(entries, revenueOrder,
                                                        totalRevenue))
                    \cup closing(1, ExpenseClosingLines(entries, expenseOrder,
                                                        totalExpense))
                    \cup closing(2, ProfitClosingLines(netProfit))
               /\ periods' = [periods EXCEPT ![p] =
                    [period EXCEPT !.status = "closed", !.lockDate = period.endDate,
                                   !.closedAt = MaxDate, !.closedBy = 1]]
               /\ response' = Resp("close-period", p, "ok", "none")
               /\ requests' = [requests EXCEPT ![r] =
                    Request("close-period", "done", p, {}, "ok")]
     /\ UNCHANGED <<accounts, receivables, payables, orders, stock, assets, partners,
                    coupons, couponOrders>>

\* ------------------------------------------------------------- reports
\* GET /trial-balance: one row per account code with a line in the range,
\* kept only where the $lookup on the chart finds the account
TrialBalance(jr, accs, startDate, endDate) ==
  LET entries == PostedIn(jr, startDate, endDate)
      allLines(code) ==
        SumOver(entries,
          [e \in entries |->
             SumDebit(SelectSeq(e.lines, LAMBDA l : l.accountCode = code))])
      allCredits(code) ==
        SumOver(entries,
          [e \in entries |->
             SumCredit(SelectSeq(e.lines, LAMBDA l : l.accountCode = code))])
  IN {[accountCode |-> c, totalDebit |-> allLines(c), totalCredit |-> allCredits(c)] :
        c \in (UNION {LineCodes(e.lines) : e \in entries}) \cap AccountCodes(accs)}

\* 'lines.accountCode': {$regex: /^prefix/}
RECURSIVE StartsWith(_, _)
StartsWith(code, prefix) ==
  IF code = prefix THEN TRUE
  ELSE IF code < prefix THEN FALSE
  ELSE StartsWith(code \div 10, prefix)

\* $match on a code prefix with credit > 0, $group {total: {$sum: '$lines.credit'}}
PrefixCredit(entries, prefix) ==
  SumOver(entries,
    [e \in entries |->
       SumCredit(SelectSeq(e.lines, LAMBDA l : StartsWith(l.accountCode, prefix)
                                                 /\ l.credit > 0))])

PrefixDebit(entries, prefix) ==
  SumOver(entries,
    [e \in entries |->
       SumDebit(SelectSeq(e.lines, LAMBDA l : StartsWith(l.accountCode, prefix)
                                                /\ l.debit > 0))])

\* the balance of a row of accountBalances by the type of its account
RowBalance(row, accs) ==
  IF (CHOOSE a \in accs : a.code = row.accountCode).accountType
       \in {"asset", "expense"}
  THEN row.totalDebit - row.totalCredit
  ELSE row.totalCredit - row.totalDebit

\* the reduce over a group of rows: positive balances only
PositiveTotal(rows, accs) ==
  SumOver(rows, [row \in rows |-> Max(0, RowBalance(row, accs))])

\* GET /balance-sheet-data.  The 20% tax makes fifths of the unit, so the
\* amounts named ...Fifths are the report's amounts times five
BalanceSheet(jr, accs, reportDate) ==
  LET entries == PostedIn(jr, 0, reportDate)
      accountBalances == TrialBalance(jr, accs, 0, reportDate)
      group(digits) == {row \in accountBalances :
                          LeadingDigit(row.accountCode) \in digits}
      totalAssets == PositiveTotal(group({1, 2}), accs)
      totalLiabilities == PositiveTotal(group({3}), accs)
      totalEquity == PositiveTotal(group({4}), accs)
      cost632 == PrefixDebit(entries, 632)
      expensesOther == PrefixDebit(entries, 6) + PrefixDebit(entries, 8) - cost632
      totalRevenue == PrefixCredit(entries, 511) + PrefixCredit(entries, 711)
      totalCosts == cost632 + expensesOther
      profitBeforeTax == totalRevenue - totalCosts
      retainedFifths == 5 * profitBeforeTax - Max(0, profitBeforeTax)
      totalFifths == 5 * (totalLiabilities + totalEquity) + retainedFifths
  IN [totalAssets |-> totalAssets,
      totalEquityAndLiabilitiesFifths |-> totalFifths,
      isBalanced |-> Abs(5 * totalAssets - totalFifths) * 100 < 5]

\* an aggregation of profit-loss: one row per code of the class with a
\* positive line on the side, kept where the $lookup finds the account
ClassRows(entries, accs, digit, side) ==
  LET amount(c) == IF side = "credit" THEN GroupCredit(entries, c)
                   ELSE GroupDebit(entries, c)
  IN {[accountCode |-> c, amount |-> amount(c)] :
        c \in {d \in (UNION {LineCodes(e.lines) : e \in entries})
                        \cap AccountCodes(accs) :
                 LeadingDigit(d) = digit /\ amount(d) > 0}}

\* filter(item => item.accountCode.startsWith(prefix)).reduce(sum of amount)
RowsTotal(rows, prefix) ==
  LET kept == {row \in rows : StartsWith(row.accountCode, prefix)}
  IN SumOver(kept, [row \in kept |-> row.amount])

\* GET /profit-loss
ProfitLoss(jr, accs, startDate, endDate) ==
  LET entries == PostedIn(jr, startDate, endDate)
      revenueAggregation == ClassRows(entries, accs, 5, "credit")
      expenseAggregation == ClassRows(entries, accs, 6, "debit")
      otherCostsAggregation == ClassRows(entries, accs, 8, "debit")
      netRevenue == RowsTotal(revenueAggregation, 511)
      otherIncome == RowsTotal(revenueAggregation, 711)
      costOfGoodsSold == RowsTotal(expenseAggregation, 632)
      sellingExpenses == RowsTotal(expenseAggregation, 641)
      adminExpenses == RowsTotal(expenseAggregation, 642)
      financialExpenses == RowsTotal(expenseAggregation, 635)
      otherExpenses == RowsTotal(expenseAggregation, 6) - costOfGoodsSold
                         - sellingExpenses - adminExpenses - financialExpenses
      otherCosts == RowsTotal(otherCostsAggregation, 8)
      grossProfit == netRevenue - costOfGoodsSold
      operatingProfit == grossProfit
                           - (sellingExpenses + adminExpenses + financialExpenses)
  IN [netRevenue |-> netRevenue,
      otherIncome |-> otherIncome,
      operatingProfit |-> operatingProfit,
      otherCosts |-> otherExpenses + otherCosts,
      profitBeforeTax |-> operatingProfit + otherIncome
                            - (otherExpenses + otherCosts)]

\* GET /account-ledger/:accountCode: endingBalance, the running balance over
\* the line that entry.lines.find gives for each matching entry
AccountLedger(jr, accountCode, startDate, endDate) ==
  LET entries == {e \in PostedIn(jr, startDate, endDate) : HasLineOn(e, accountCode)}
      found(e) == Head(SelectSeq(e.lines, LAMBDA l : l.accountCode = accountCode))
  IN SumOver(entries, [e \in entries |-> found(e).debit - found(e).credit])

\* ---------------------------------------------------------- coupons
MaxCouponOrders == 2
MaxUsers == 2
MaxLimit == 2

CouponOrders == 1..MaxCouponOrders
Users == 1..MaxUsers
CouponCodes == {"SALE", "GONE"}

\* null of globalUsageLimit / perUserUsageLimit (no limit)
Null == -1

Limits == {Null} \cup (0..MaxLimit)

NoCoupons == << >>

NoStat == [usedCount |-> 0, reservedCount |-> 0]

CouponDoc(startDate, endDate, discount, globalUsageLimit, perUserUsageLimit) ==
  [startDate |-> startDate, endDate |-> endDate, discount |-> discount,
   globalUsageLimit |-> globalUsageLimit,
   perUserUsageLimit |-> perUserUsageLimit,
   usedCount |-> 0, reservedCount |-> 0, userStats |-> << >>]

NoCouponOrder ==
  [status |-> "none", user |-> 0, coupon |-> "", couponReserved |-> FALSE,
   couponCommitted |-> FALSE]

\* stat?.usedCount || 0, stat?.reservedCount || 0 of a user without a stat
GetUserStat(couponDoc, userId) ==
  IF userId \in DOMAIN couponDoc.userStats THEN couponDoc.userStats[userId]
  ELSE NoStat

EnsureUserStat(couponDoc, userId) ==
  IF userId \in DOMAIN couponDoc.userStats THEN couponDoc
  ELSE [couponDoc EXCEPT !.userStats = (userId :> NoStat) @@ @]

ValidateCouponDoc(couponDoc, now) ==
  /\ now >= couponDoc.startDate
  /\ now <= couponDoc.endDate
  /\ couponDoc.discount > 0 /\ couponDoc.discount <= 100

ValidateLimits(couponDoc, userId, includeReserved) ==
  LET globalLimit == couponDoc.globalUsageLimit
      perUserLimit == couponDoc.perUserUsageLimit
      globalCurrent == couponDoc.usedCount
                         + (IF includeReserved THEN couponDoc.reservedCount
                            ELSE 0)
      stat == GetUserStat(couponDoc, userId)
      userCurrent == stat.usedCount
                       + (IF includeReserved THEN stat.reservedCount ELSE 0)
  IN /\ ~(globalLimit # Null /\ globalLimit >= 0
            /\ globalCurrent >= globalLimit)
     /\ ~(perUserLimit # Null /\ perUserLimit >= 0
            /\ userCurrent >= perUserLimit)

\* each service call gives [ok, coupons]: ok FALSE where the code throws
ReserveForOrder(cs, code, userId, now) ==
  IF code \notin DOMAIN cs THEN [ok |-> FALSE, coupons |-> cs]
  ELSE IF ~ValidateCouponDoc(cs[code], now) THEN [ok |-> FALSE, coupons |-> cs]
  ELSE IF ~ValidateLimits(cs[code], userId, TRUE)
       THEN [ok |-> FALSE, coupons |-> cs]
  ELSE LET doc == EnsureUserStat(cs[code], userId)
           saved == [doc EXCEPT !.reservedCount = @ + 1,
                                !.userStats[userId].reservedCount = @ + 1]
       IN [ok |-> TRUE, coupons |-> [cs EXCEPT ![code] = saved]]

CommitForPaidOrder(cs, code, userId, hasReservation, now) ==
  IF code \notin DOMAIN cs THEN [ok |-> FALSE, coupons |-> cs]
  ELSE IF ~ValidateCouponDoc(cs[code], now) THEN [ok |-> FALSE, coupons |-> cs]
  ELSE IF ~hasReservation /\ ~ValidateLimits(cs[code], userId, FALSE)
       THEN [ok |-> FALSE, coupons |-> cs]
  ELSE LET doc == EnsureUserStat(cs[code], userId)
           saved ==
             [doc EXCEPT
                !.reservedCount = IF hasReservation THEN Max(0, @ - 1) ELSE @,
                !.usedCount = @ + 1,
                !.userStats[userId].reservedCount =
                   IF hasReservation THEN Max(0, @ - 1) ELSE @,
                !.userStats[userId].usedCount = @ + 1]
       IN [ok |-> TRUE, coupons |-> [cs EXCEPT ![code] = saved]]

ReleaseReservation(cs, code, userId) ==
  IF code \notin DOMAIN cs THEN [ok |-> TRUE, coupons |-> cs]
  ELSE LET doc == EnsureUserStat(cs[code], userId)
           saved == [doc EXCEPT
                       !.reservedCount = Max(0, @ - 1),
                       !.userStats[userId].reservedCount = Max(0, @ - 1)]
       IN [ok |-> TRUE, coupons |-> [cs EXCEPT ![code] = saved]]

\* POST checkout with a coupon: commits at once when the Sepay payment is
\* already paid, reserves otherwise; a throw aborts the transaction
CouponCheckout(o, userId, code, sepayIsPaid, now) ==
  /\ couponOrders[o].status = "none"
  /\ LET done == IF sepayIsPaid
                 THEN CommitForPaidOrder(coupons, code, userId, FALSE, now)
                 ELSE ReserveForOrder(coupons, code, userId, now)
     IN IF done.ok
        THEN /\ coupons' = done.coupons
             /\ couponOrders' =
                  [couponOrders EXCEPT
                     ![o] = [status |-> "pending", user |-> userId,
                             coupon |-> code,
                             couponReserved |-> ~sepayIsPaid,
                             couponCommitted |-> sepayIsPaid]]
             /\ response' = Resp("coupon-checkout", o, "ok", "none")
        ELSE /\ UNCHANGED <<coupons, couponOrders>>
             /\ response' = Resp("coupon-checkout", o, "fail", "none")
  /\ UNCHANGED <<accounts, journal, receivables, payables, orders, stock,
                 assets, periods, requests, partners>>

\* the coupon part of the order status update: commit when the order becomes
\* paid, release when it is cancelled; a throw is logged and swallowed
CouponPatch(o, newStatus, now) ==
  /\ couponOrders[o].status # "none"
  /\ LET ord == couponOrders[o]
         previousStatus == ord.status
         updated == [ord EXCEPT !.status = newStatus]
     IN IF newStatus = "paid" /\ previousStatus # "paid"
             /\ ~ord.couponCommitted
        THEN LET done == CommitForPaidOrder(coupons, ord.coupon, ord.user,
                                            ord.couponReserved, now)
             IN IF done.ok
                THEN /\ coupons' = done.coupons
                     /\ couponOrders' =
                          [couponOrders EXCEPT
                             ![o] = [updated EXCEPT
                                       !.couponCommitted = TRUE,
                                       !.couponReserved = FALSE]]
                ELSE /\ coupons' = coupons
                     /\ couponOrders' = [couponOrders EXCEPT ![o] = updated]
        ELSE IF newStatus = "cancelled" /\ previousStatus # "cancelled"
                  /\ ord.couponReserved /\ ~ord.couponCommitted
        THEN /\ coupons' = ReleaseReservation(coupons, ord.coupon,
                                              ord.user).coupons
             /\ couponOrders' =
                  [couponOrders EXCEPT
                     ![o] = [updated EXCEPT !.couponReserved = FALSE]]
        ELSE /\ coupons' = coupons
             /\ couponOrders' = [couponOrders EXCEPT ![o] = updated]
  /\ response' = Resp("coupon-patch", o, "ok", "none")
  /\ UNCHANGED <<accounts, journal, receivables, payables, orders, stock,
                 assets, periods, requests, partners>>

Init ==
  /\ accounts = DefaultAccounts
  /\ journal = {}
  /\ receivables = {}
  /\ payables = {}
  /\ orders = [o \in Orders |-> NoOrder]
  /\ stock = InitStock
  /\ assets = [a \in AssetIds |-> NoAsset]
  /\ periods = [p \in PeriodIds |-> NoPeriod]
  /\ response = Resp("init", 0, "ok", "none")
  /\ requests = [r \in Requests |-> NoRequest]
  /\ partners = {}
  /\ coupons = NoCoupons
  /\ couponOrders = [o \in CouponOrders |-> NoCouponOrder]

\* the order handlers, all requests arriving on day 1
NextOrder ==
  \/ \E o \in Orders, pm \in PaymentMethods, total \in Amounts,
        items \in ItemChoices :
        Checkout(o, pm, total, items, 1)
  \/ \E o \in Orders, st \in ValidStatuses \cup {"undefined"},
        pm \in PaymentMethods \cup {"undefined"}, ft \in {0} \cup Amounts :
        PatchOrder(o, st, pm, ft)
  \/ \E o \in Orders : PostCogsRoute(o)
  \/ \E o \in Orders : SyncOrder(o)
  \/ \E o \in Orders : CreateSale(o)
  \/ \E o \in Orders, amount \in Amounts : PaymentReceipt(o, amount, 1)
  \/ \E o \in Orders, amount \in PaymentAmounts : ReceivablePayment(o, amount)

SpecOrder == Init /\ [][NextOrder]_vars

\* fixed assets and the two depreciation runs
NextDep ==
  \/ \E a \in AssetIds, cost \in {0} \cup AssetCosts, code \in {111, 331, 999},
        purchaseDate \in Dates :
        \E life \in IF cost = 0 THEN {1} ELSE Lives(cost),
           monthly \in MonthlyChoices(cost) :
          CreateFixedAsset(a, cost, life, monthly, code, purchaseDate)
  \/ \E m \in Months : CalculateDepreciation(m)
  \/ \E m \in Months : CalculateMonthlyDepreciation(m)

SpecDep == Init /\ [][NextDep]_vars

\* request lines for the routes that take them: revenue, other income and
\* expense postings, balanced and not
RequestLines ==
  {<<Line(111, a, 0), Line(511, 0, b)>> : a, b \in Amounts}
    \cup {<<Line(111, a, 0), Line(711, 0, a)>> : a \in Amounts}
    \cup {<<Line(642, a, 0), Line(111, 0, a)>> : a \in Amounts}

\* postings, periods and their closing; at most MaxManual entries are posted
\* by request
NextClose ==
  \/ /\ Cardinality(journal) < MaxManual
     /\ \E lines \in RequestLines, date \in Dates : PostJournalEntry(lines, date)
  \/ /\ Cardinality(journal) < MaxManual
     /\ \E type \in {"income", "expense"}, category \in {"Dau tu", "Marketing"},
           date \in Dates :
           PostEntry(type, category, "paid", 1, date, FALSE, NoEntry)
  \/ \E code \in {911, 421} : CreateAccount(code, "equity")
  \/ \E p \in PeriodIds, startDate \in Dates, endDate \in Dates :
        CreatePeriod(p, startDate, endDate)
  \/ \E p \in PeriodIds, lockDate \in {0} \cup Dates, today \in Dates :
        ClosePeriod(p, lockDate, today, 1)

SpecClose == Init /\ [][NextClose]_vars

\* the ledger may take another entry
Room == Cardinality(journal) < MaxEntries

\* a balanced and an unbalanced list of lines for the requests that carry lines
LedgerLines ==
  {<<Line(111, a, 0), Line(511, 0, 1)>> : a \in Amounts}

\* the operations that write the ledger, on day 1 and with unit amounts;
\* post-entry edits the entries it made
Next ==
  \/ \E o \in Orders, pm \in {"COD", "MoMo"} :
        Room /\ Checkout(o, pm, 1, <<[product |-> 1, quantity |-> 2]>>, 1)
  \/ \E o \in Orders : Room /\ PatchOrder(o, "shipped", "undefined", 0)
  \/ \E o \in Orders : Room /\ PostCogsRoute(o)
  \/ \E o \in Orders : Room /\ CreateSale(o)
  \/ \E o \in Orders : Room /\ PaymentReceipt(o, 1, 1)
  \/ \E a \in AssetIds : Room /\ CreateFixedAsset(a, 2, 2, 0, 111, 1)
  \/ \E m \in Months : Room /\ CalculateDepreciation(m)
  \/ \E lines \in LedgerLines : Room /\ PostJournalEntry(lines, 1)
  \/ \E e \in journal, lines \in LedgerLines : PutJournalEntry(e, lines, 0)
  \/ \E type \in {"income", "expense"} :
        Room /\ PostEntry(type, "Marketing", "paid", 1, 1, TRUE, NoEntry)
  \/ \E edit \in {e \in journal : e.sourceType = "MANUAL"} :
        PostEntry("income", "Dau tu", "paid", 1, 1, TRUE, edit)
  \/ Room /\ InternalTransfer(111, 1121, 1, 1)
  \/ \E lines \in LedgerLines : Room /\ AdjustingEntry(lines, 1)
  \/ \E p \in PeriodIds : CreatePeriod(p, 1, MaxDate)
  \/ \E p \in PeriodIds : Room /\ ClosePeriod(p, 0, MaxDate, 1)

Spec == Init /\ [][Next]_vars

\* lines of a sale and of a sales return
BookLines ==
  {<<Line(111, 1, 0), Line(511, 0, 1)>>,
   <<Line(511, 1, 0), Line(111, 0, 1)>>}

\* keeping the books on day 1: postings with and without debt records, their
\* edits and deletions, and the closing of a period
NextBooks ==
  \/ \E lines \in BookLines : Room /\ PostJournalEntry(lines, 1)
  \/ \E e \in journal, lines \in BookLines : PutJournalEntry(e, lines, 0)
  \/ \E e \in journal : DeleteJournalEntry(e)
  \/ \E e \in journal : PostReceivable(e, 1)
  \/ Room /\ PostEntry("expense", "Marketing", "unpaid", 1, 1, TRUE, NoEntry)
  \/ \E edit \in journal : PostEntry("income", "Dau tu", "paid", 1, 1, TRUE, edit)
  \/ Room /\ PostTransaction("income", 1, 1, "unpaid")
  \/ \E p \in PeriodIds : CreatePeriod(p, 1, MaxDate)
  \/ \E p \in PeriodIds : Room /\ ClosePeriod(p, 0, MaxDate, 1)

SpecBooks == Init /\ [][NextBooks]_vars

\* post-entry requests running side by side
NextProvision ==
  \/ \E r \in Requests, type \in {"income", "expense"},
        category \in {"Ban hang", "Marketing"}, paymentStatus \in {"paid", "unpaid"} :
        PostEntryRead(r, type, category, paymentStatus)
  \/ \E r \in Requests : PostEntrySave(r)

SpecProvision == Init /\ [][NextProvision]_vars

\* bodies of POST /journal-entries with two or three lines
ReportLines ==
  {<<Line(111, a, 0), Line(511, 0, a)>> : a \in Amounts}
    \cup {<<Line(642, a, 0), Line(111, 0, a)>> : a \in Amounts}
    \cup {<<Line(111, 1, 0), Line(111, 1, 0), Line(511, 0, 2)>>,
          <<Line(111, 2, 0), Line(511, 0, 1), Line(511, 0, 1)>>}

\* postings and deletions under the reports
NextReport ==
  \/ /\ Cardinality(journal) < MaxManual
     /\ \E lines \in ReportLines, date \in Dates : PostJournalEntry(lines, date)
  \/ \E e \in journal : DeleteJournalEntry(e)

SpecReport == Init /\ [][NextReport]_vars

\* the empty ledger with room for MaxOverlap accounting periods
InitOverlap ==
  /\ accounts = DefaultAccounts
  /\ journal = {}
  /\ receivables = {}
  /\ payables = {}
  /\ orders = [o \in Orders |-> NoOrder]
  /\ stock = InitStock
  /\ assets = [a \in AssetIds |-> NoAsset]
  /\ periods = [p \in 1..MaxOverlap |-> NoPeriod]
  /\ response = Resp("init", 0, "ok", "none")
  /\ requests = [r \in Requests |-> NoRequest]
  /\ partners = {}
  /\ coupons = NoCoupons
  /\ couponOrders = [o \in CouponOrders |-> NoCouponOrder]

\* postings, then periods of any range and their closings
NextOverlap ==
  \/ /\ Cardinality(journal) < MaxManual
     /\ \A p \in 1..MaxOverlap : periods[p].status = "none"
     /\ \E lines \in {<<Line(111, 1, 0), Line(511, 0, 1)>>,
                       <<Line(642, 1, 0), Line(111, 0, 1)>>}, date \in Dates :
          PostJournalEntry(lines, date)
  \/ \E p \in 1..MaxOverlap, startDate \in Dates, endDate \in Dates :
        startDate <= endDate /\ CreatePeriod(p, startDate, endDate)
  \/ \E p \in 1..MaxOverlap : ClosePeriod(p, 0, MaxDate, 1)

SpecOverlap == InitOverlap /\ [][NextOverlap]_vars

\* partner names and phones of post-entry requests
PartnerNames == {"", "An", "AN", " An", "Binh"}

PartnerPhones == {"", "0911111111", "0922222222", "12"}

\* post-entry requests with a partner, one after the other
NextPartner ==
  \E r \in Requests, type \in {"income", "expense"},
     category \in {"Dau tu", "Marketing", "Luong nhan vien"},
     partnerName \in PartnerNames, partnerPhone \in PartnerPhones :
     /\ \A q \in 1..(r - 1) : requests[q].pc = "done"
     /\ PostEntryRequest(r, type, category, "unpaid", partnerName, partnerPhone)

SpecPartner == Init /\ [][NextPartner]_vars

\* post-entry requests over every type, category and payment status
NextPosting ==
  \/ \E r \in Requests, type \in {"income", "expense"}, category \in Categories,
        paymentStatus \in {"paid", "unpaid"} :
        PostEntryRead(r, type, category, paymentStatus)
  \/ \E r \in Requests : PostEntrySave(r)

SpecPosting == Init /\ [][NextPosting]_vars

\* postCOGSEntry invocations for stored orders running side by side
NextCogs ==
  \/ \E o \in Orders, pm \in {"COD", "MoMo"}, total \in Amounts, items \in ItemChoices :
        Checkout(o, pm, total, items, 1)
  \/ \E r \in Requests, o \in Orders : CogsCheck(r, o)
  \/ \E r \in Requests : CogsStock(r)
  \/ \E r \in Requests : CogsSave(r)

SpecCogs == Init /\ [][NextCogs]_vars

\* a cash-on-delivery order, its collections, and post-entry requests that
\* post a debt or rewrite a stored entry
NextDebt ==
  \/ \E o \in Orders, total \in Amounts, items \in ItemChoices :
        Checkout(o, "COD", total, items, 1)
  \/ \E o \in Orders : PatchOrder(o, "shipped", "undefined", 0)
  \/ \E o \in Orders, amount \in Amounts : PaymentReceipt(o, amount, 1)
  \/ Room /\ PostEntry("expense", "Marketing", "unpaid", 1, 1, TRUE, NoEntry)
  \/ \E edit \in {e \in journal : Referenced(e, receivables, payables)} :
        PostEntry("income", "Dau tu", "unpaid", 1, 1, TRUE, edit)

SpecDebt == Init /\ [][NextDebt]_vars

\* close-period requests running side by side with postings
NextClosing ==
  \/ /\ Cardinality(journal) < MaxManual
     /\ \E lines \in RequestLines : PostJournalEntry(lines, 1)
  \/ \E p \in PeriodIds : CreatePeriod(p, 1, MaxDate)
  \/ \E r \in Requests, p \in PeriodIds : CloseRead(r, p)
  \/ \E r \in Requests : CloseCommit(r)

SpecClosing == Init /\ [][NextClosing]_vars

\* ------------------------------------------------ properties of the ledger
\* C1: after any sequence of ledger operations every stored journal entry
\* with status posted has total debit equal to total credit within 0.01.
C1_PostedEntriesBalanced ==
  \A e \in journal :
    e.status = "posted"
    => /\ (SumDebit(e.lines) - SumCredit(e.lines)) * 100 <= 1
       /\ (SumCredit(e.lines) - SumDebit(e.lines)) * 100 <= 1

C1_Witness ==
  /\ response.op = "journal-put"
  /\ response.result = "ok"
  /\ \E e \in journal :
       /\ e.id[3] = response.key
       /\ e.entryType = "closing"
       /\ HasLineOn(e, 111)
  /\ Cardinality(journal) > MaxEntries

\* ------------------------------------------------- properties of orders
SaleEntries(jr, o) == {e \in OrderEntries(jr, o) : e.entryType = "sale"}

CogsEntries(jr, o) == {e \in OrderEntries(jr, o) : HasLineOn(e, 632)}

ReceivablesOf(rc, o) == {r \in rc : r.order = o}

\* the step invoked postCOGSEntry for order o
CogsInvoked(o) == response'.key = o /\ response'.cogs # "none"

\* the step invoked syncOrderToAccounting or createSaleJournalEntry for order o
SyncInvoked(o) ==
  /\ response'.key = o
  /\ \/ response'.op \in {"checkout", "sync", "sale"}
     \/ response'.op = "patch" /\ orders'[o].status # orders[o].status

\* C2: every Receivable and Payable keeps 0 <= remainingAmount <= originalAmount
\* over debt creations and payments of any amount.
C2_RemainingWithinOriginal ==
  \A r \in receivables \cup payables :
    0 <= r.remainingAmount /\ r.remainingAmount <= r.originalAmount

\* C3: once postCOGSEntry has posted the COGS entry of an order, a further
\* call returns the existing entry, adds no journal line and leaves every
\* product stock alone; the order keeps exactly one posted COGS entry.
C3_CogsIdempotent ==
  [][\A o \in Orders :
       /\ CogsInvoked(o) /\ response'.cogs = "created"
            => Cardinality(CogsEntries(journal', o)) = 1
       /\ CogsInvoked(o) /\ CogsEntries(journal, o) # {}
            => /\ response'.cogs = "existing"
               /\ journal' = journal
               /\ stock' = stock
               /\ Cardinality(CogsEntries(journal', o)) = 1]_vars

C3_Witness ==
  /\ response.cogs = "existing"
  /\ \E o \in Orders :
       /\ response.key = o
       /\ Cardinality(CogsEntries(journal, o)) = 1
       /\ stock[1] = 1

DepreciationEntries(jr, a, m) ==
  {e \in jr : e.entryType = "depreciation" /\ e.sourceId = a /\ e.date = m}

HistoryRows(asset, m) ==
  {i \in 1..Len(asset.depreciationHistory) : asset.depreciationHistory[i].month = m}

DepreciationRun(m) ==
  response'.op \in {"depreciation", "depreciation-script"} /\ response'.key = m

\* C6: after any number of depreciation runs (route or batch script) an asset
\* has at most one history row and the ledger at most one depreciation entry
\* per month, and a run for a month already in the asset's history leaves
\* its accumulatedDepreciation and bookValue unchanged.
C6_DepreciationOncePerMonth ==
  [][\A a \in AssetIds, m \in Months :
       /\ Cardinality(HistoryRows(assets'[a], m)) <= 1
       /\ Cardinality(DepreciationEntries(journal', a, m)) <= 1
       /\ DepreciationRun(m) /\ HistoryRows(assets[a], m) # {}
            => /\ assets'[a].accumulatedDepreciation
                    = assets[a].accumulatedDepreciation
               /\ assets'[a].bookValue = assets[a].bookValue
               /\ DepreciationEntries(journal', a, m)
                    = DepreciationEntries(journal, a, m)]_vars

C6_Witness ==
  /\ response.op = "depreciation-script"
  /\ \E a \in AssetIds :
       /\ Cardinality(HistoryRows(assets[a], response.key)) = 1
       /\ Cardinality(DepreciationEntries(journal, a, response.key)) = 1
       /\ assets[a].accumulatedDepreciation < assets[a].originalCost
       /\ Len(assets[a].depreciationHistory) = 1

\* C7: every fixed asset keeps accumulatedDepreciation <= originalCost, and
\* after each run that posts for an asset its bookValue is originalCost -
\* accumulatedDepreciation and not negative.
C7_DepreciationWithinCost ==
  [][\A a \in AssetIds :
       /\ assets'[a].accumulatedDepreciation <= assets'[a].originalCost
       /\ Len(assets'[a].depreciationHistory) > Len(assets[a].depreciationHistory)
            => /\ assets'[a].bookValue
                    = assets'[a].originalCost - assets'[a].accumulatedDepreciation
               /\ assets'[a].bookValue >= 0]_vars

C7_Witness ==
  \E a \in AssetIds :
    /\ Len(assets[a].depreciationHistory) = 2
    /\ assets[a].depreciationHistory[2].amount < assets[a].monthlyDepreciation
    /\ assets[a].accumulatedDepreciation = assets[a].originalCost
    /\ assets[a].bookValue = 0

\* ---------------------------------------------- properties of closing
CloseRequest(p) == response'.op = "close-period" /\ response'.key = p

\* C4: a close-period request for a period that is already closed is
\* rejected, creates no journal entry and leaves the period's status,
\* lockDate, closedAt and closedBy unchanged.
C4_ClosedPeriodRejected ==
  [][\A p \in PeriodIds :
       CloseRequest(p) /\ periods[p].status = "closed"
       => /\ response'.result = "rejected"
          /\ journal' = journal
          /\ periods'[p].status = "closed"
          /\ periods'[p].lockDate = periods[p].lockDate
          /\ periods'[p].closedAt = periods[p].closedAt
          /\ periods'[p].closedBy = periods[p].closedBy]_vars

C4_Witness ==
  /\ response.op = "close-period"
  /\ response.result = "rejected"
  /\ \E p \in PeriodIds :
       /\ response.key = p
       /\ periods[p].status = "closed"
       /\ \E e \in journal : e.entryType = "closing"

TotalDebitOfRows(rows) == SumOver(rows, [r \in rows |-> r.totalDebit])

TotalCreditOfRows(rows) == SumOver(rows, [r \in rows |-> r.totalCredit])

\* C5: for any date range and any reachable ledger state the trial-balance
\* rows have equal sums of totalDebit and totalCredit.
C5_TrialBalanceBalanced ==
  \A startDate \in Dates, endDate \in Dates :
    LET rows == TrialBalance(journal, accounts, startDate, endDate)
    IN TotalDebitOfRows(rows) = TotalCreditOfRows(rows)

\* revenue and expense of a period, summed line by line
RECURSIVE ClassCredit(_)
ClassCredit(lines) ==
  IF lines = << >> THEN 0
  ELSE (IF LeadingDigit(Head(lines).accountCode) \in {5, 7}
        THEN Head(lines).credit ELSE 0) + ClassCredit(Tail(lines))

RECURSIVE ClassDebit(_)
ClassDebit(lines) ==
  IF lines = << >> THEN 0
  ELSE (IF LeadingDigit(Head(lines).accountCode) \in {6, 8}
        THEN Head(lines).debit ELSE 0) + ClassDebit(Tail(lines))

PeriodEntries(p) ==
  {e \in journal : periods[p].startDate <= e.date /\ e.date <= periods[p].endDate}

PeriodRevenue(p) ==
  SumOver(PeriodEntries(p), [e \in PeriodEntries(p) |-> ClassCredit(e.lines)])

PeriodExpense(p) ==
  SumOver(PeriodEntries(p), [e \in PeriodEntries(p) |-> ClassDebit(e.lines)])

NetProfit(p) == PeriodRevenue(p) - PeriodExpense(p)

\* the entries the step adds
NewEntries == journal' \ journal

\* C10: a successful close-period on an open period transfers netProfit =
\* total revenue - total expense of the posted lines dated in [startDate,
\* endDate]: a positive netProfit is credited to 421, a negative one
\* debited to 421 by its absolute value, a zero one posts no transfer entry;
\* and the closing entries debit 911 by as much as they credit it.
C10_ClosingTransfersNetProfit ==
  [][\A p \in PeriodIds :
       periods[p].status = "open" /\ periods'[p].status = "closed"
       => LET transfers == {e \in NewEntries : HasLineOn(e, 421)}
          IN /\ \A e \in NewEntries : e.entryType = "closing"
             /\ NetProfit(p) = 0 => transfers = {}
             /\ NetProfit(p) > 0
                  => /\ Cardinality(transfers) = 1
                     /\ \A e \in transfers :
                          /\ SumCredit(SelectSeq(e.lines,
                                LAMBDA l : l.accountCode = 421)) = NetProfit(p)
                          /\ SumDebit(SelectSeq(e.lines,
                                LAMBDA l : l.accountCode = 421)) = 0
             /\ NetProfit(p) < 0
                  => /\ Cardinality(transfers) = 1
                     /\ \A e \in transfers :
                          /\ SumDebit(SelectSeq(e.lines,
                                LAMBDA l : l.accountCode = 421)) = -NetProfit(p)
                          /\ SumCredit(SelectSeq(e.lines,
                                LAMBDA l : l.accountCode = 421)) = 0
             /\ SumOver(NewEntries, [e \in NewEntries |->
                   SumDebit(SelectSeq(e.lines, LAMBDA l : l.accountCode = 911))])
                = SumOver(NewEntries, [e \in NewEntries |->
                   SumCredit(SelectSeq(e.lines, LAMBDA l : l.accountCode = 911))])]_vars

C10_Witness ==
  /\ response.op = "close-period"
  /\ response.result = "ok"
  /\ \E p \in PeriodIds :
       /\ periods[p].status = "closed"
       /\ Cardinality({e \in journal : e.entryType = "closing"}) = 3
       /\ \E e \in journal :
            /\ e.entryType = "closing"
            /\ \E i \in 1..Len(e.lines) :
                 e.lines[i].accountCode = 421 /\ e.lines[i].debit > 0

\* ------------------------------------------- properties of closed books
\* the posted lines dated in the period, by account
PeriodDebitOn(jr, p, code) ==
  LET entries == {e \in jr : /\ e.status = "posted"
                             /\ periods'[p].startDate <= e.date
                             /\ e.date <= periods'[p].endDate}
  IN SumOver(entries, [e \in entries |->
       SumDebit(SelectSeq(e.lines, LAMBDA l : l.accountCode = code))])

PeriodCreditOn(jr, p, code) ==
  LET entries == {e \in jr : /\ e.status = "posted"
                             /\ periods'[p].startDate <= e.date
                             /\ e.date <= periods'[p].endDate}
  IN SumOver(entries, [e \in entries |->
       SumCredit(SelectSeq(e.lines, LAMBDA l : l.accountCode = code))])

\* C11: after a successful close-period every revenue-class (5, 7) and
\* expense-class (6, 8) account has total debit equal to total credit over
\* the posted lines dated in the period, closing entries included.
C11_ClosedAccountsNetToZero ==
  [][\A p \in PeriodIds :
       periods[p].status = "open" /\ periods'[p].status = "closed"
       => \A code \in UNION {LineCodes(e.lines) : e \in journal'} :
            LeadingDigit(code) \in {5, 6, 7, 8}
            => PeriodDebitOn(journal', p, code) = PeriodCreditOn(journal', p, code)]_vars

\* the entries dated on or before the lock date of a closed period
LockedEntries ==
  {e \in journal :
     \E p \in PeriodIds : periods[p].status = "closed" /\ e.date <= periods[p].lockDate}

\* C12: once a period is closed with lock date L, a request that updates or
\* deletes a journal entry dated on or before L, or edits it through
\* post-entry, is rejected and leaves the entry unchanged.
C12_LockedEntriesKept ==
  [][response'.op \in {"journal-put", "journal-delete", "post-entry"}
       => \A e \in LockedEntries :
            /\ e \in journal'
            /\ response'.key = e.id[3] => response'.result = "rejected"]_vars

\* the entries a Receivable or a Payable references
DebtEntries ==
  {e \in journal : \E d \in receivables \cup payables : d.journalEntry = e.id}

\* C13: a delete request for a journal entry is rejected, and the entry stays
\* stored, whenever a Receivable or a Payable references it; an entry is
\* removed only when neither references it.
C13_ReferencedEntryKept ==
  [][response'.op = "journal-delete"
       => /\ DebtEntries \subseteq journal'
          /\ journal' \subseteq journal
          /\ response'.result = "rejected"
               => /\ journal' = journal
                  /\ \E e \in DebtEntries : e.id[3] = response'.key
          /\ response'.result = "ok"
               => /\ Cardinality(journal \ journal') = 1
                  /\ \A e \in journal \ journal' :
                       e.id[3] = response'.key /\ e \notin DebtEntries]_vars

C13_Witness ==
  /\ response.op = "journal-delete"
  /\ response.result = "rejected"
  /\ receivables = {}
  /\ \E e \in journal, d \in payables :
       d.journalEntry = e.id /\ e.id[3] = response.key

\* C16: in every reachable state each account code on a line of a posted
\* journal entry exists in the chart of accounts.
C16_PostedCodesInChart ==
  \A e \in journal :
    e.status = "posted" => LineCodes(e.lines) \subseteq AccountCodes(accounts)

\* ------------------------------------------- properties of failed writes
\* C14: an operation that writes several documents is all-or-nothing; in
\* particular a COGS posting that fails leaves no stock decrement.
C14_FailedCogsLeavesNothing ==
  [][response'.cogs = "error" => stock' = stock]_vars

\* ------------------------------------- properties of concurrent requests
\* C15: when post-entry requests that provision the same missing account run
\* concurrently, each of them succeeds and one account with that code exists
\* afterwards.
C15_ConcurrentProvisioningSucceeds ==
  /\ \A r \in Requests :
       requests[r].op = "post-entry" /\ requests[r].pc = "done"
         /\ requests[r].seen # {}
       => requests[r].result = "ok"
  /\ \A a, b \in accounts : a.code = b.code => a = b

\* the quantity of product p that order o holds
RECURSIVE OrderedQuantity(_, _)
OrderedQuantity(items, p) ==
  IF items = << >> THEN 0
  ELSE (IF Head(items).product = p THEN Head(items).quantity ELSE 0)
         + OrderedQuantity(Tail(items), p)

\* C17: however postCOGSEntry invocations for an order interleave, at most
\* one posted COGS entry exists for the order and each product's stock is
\* decremented by the ordered quantity at most once.
C17_CogsOnceUnderInterleaving ==
  /\ \A o \in Orders :
       Cardinality({e \in CogsEntries(journal, o) : e.status = "posted"}) <= 1
  /\ \A p \in Products :
       stock[p] >= InitStock[p]
                     - SumOver(Orders, [o \in Orders |->
                                          OrderedQuantity(orders[o].items, p)])

\* the closing entries of period p in the journal (their reference number
\* carries the period), by what they transfer
PeriodClosings(jr, p) ==
  {e \in jr : e.entryType = "closing" /\ e.referenceNo[2] = p}

ProfitTransfers(jr, p) == {e \in PeriodClosings(jr, p) : HasLineOn(e, 421)}

RevenueClosings(jr, p) ==
  {e \in PeriodClosings(jr, p) :
              /\ ~HasLineOn(e, 421)
              /\ \E i \in DOMAIN e.lines :
                   e.lines[i].accountCode = 911 /\ e.lines[i].credit > 0}

ExpenseClosings(jr, p) ==
  {e \in PeriodClosings(jr, p) :
              /\ ~HasLineOn(e, 421)
              /\ \E i \in DOMAIN e.lines :
                   e.lines[i].accountCode = 911 /\ e.lines[i].debit > 0}

ClosesSucceeded(p) ==
  {r \in Requests : /\ requests[r].op = "close-period"
                    /\ requests[r].key = p
                    /\ requests[r].result = "ok"}

\* C18: across any interleaving of close-period requests for a period at
\* most one succeeds and at most one revenue-closing, one expense-closing and
\* one profit-transfer entry is created, and a closed period never returns
\* to open.
C18_CloseOnceUnderInterleaving ==
  /\ [](\A p \in PeriodIds :
          /\ Cardinality(ClosesSucceeded(p)) <= 1
          /\ Cardinality(RevenueClosings(journal, p)) <= 1
          /\ Cardinality(ExpenseClosings(journal, p)) <= 1
          /\ Cardinality(ProfitTransfers(journal, p)) <= 1)
  /\ [][\A p \in PeriodIds :
          PeriodClosed(periods[p]) => PeriodClosed(periods'[p])]_vars

\* two requests read the open period; one closed it, the other was refused
\* at its commit
C18_Witness ==
  \E r1, r2 \in Requests :
    /\ requests[r1].op = "close-period" /\ requests[r1].result = "ok"
    /\ requests[r2].op = "close-period" /\ requests[r2].result = "error"
    /\ requests[r1].key = requests[r2].key
    /\ RevenueClosings(journal, requests[r1].key) # {}

\* C19: once a Receivable or a Payable references a journal entry, no
\* operation changes that entry's lines, date or amounts in place.
C19_ReferencedEntryUnchanged ==
  [][\A e \in DebtEntries :
       \A f \in journal' : f.id = e.id => f.lines = e.lines /\ f.date = e.date]_vars

\* C20: in every reachable state each Receivable references a journal entry
\* with a debit line on account 131 and each Payable references one with a
\* credit line on account 331.
C20_DebtsBackedByLines ==
  /\ \A d \in receivables :
       \E e \in journal :
         /\ e.id = d.journalEntry
         /\ \E i \in DOMAIN e.lines :
              e.lines[i].accountCode = 131 /\ e.lines[i].debit > 0
  /\ \A d \in payables :
       \E e \in journal :
         /\ e.id = d.journalEntry
         /\ \E i \in DOMAIN e.lines :
              e.lines[i].accountCode = 331 /\ e.lines[i].credit > 0

\* the place of a payment status on the way unpaid, partial, paid
StatusRank(status) ==
  IF status = "unpaid" THEN 0 ELSE IF status = "partial" THEN 1 ELSE 2

\* the status that the amounts of a debt call for
StatusMatchesAmounts(d) ==
  /\ d.paymentStatus = "unpaid" <=> d.remainingAmount = d.originalAmount
  /\ d.paymentStatus = "partial"
       <=> 0 < d.remainingAmount /\ d.remainingAmount < d.originalAmount
  /\ d.paymentStatus = "paid" <=> d.remainingAmount = 0

\* C21: the debt attached to a journal entry is unpaid when nothing of the
\* original amount is settled, partial when part of it is, paid when nothing
\* remains, and over every step the status of the debt of an entry only moves
\* forward along unpaid, partial, paid.
C21_StatusMovesForward ==
  [][/\ \A d \in receivables' \cup payables' : StatusMatchesAmounts(d)
     /\ \A d \in receivables \cup payables :
          \A f \in receivables' \cup payables' :
            f.journalEntry = d.journalEntry
              => StatusRank(f.paymentStatus) >= StatusRank(d.paymentStatus)]_vars

\* the debit and credit codes the decision table gives a request
TableCodes(type, category, paymentStatus) ==
  IF type = "income"
  THEN IF paymentStatus = "paid"
       THEN IF category \in {"Ban hang", "Dich vu"} THEN <<1121, 3387>>
            ELSE <<1121, CategoryAccount(category, "income")>>
       ELSE <<131, CategoryAccount(category, "income")>>
  ELSE IF category = "Luong nhan vien" THEN <<642, 334>>
       ELSE IF paymentStatus = "paid"
            THEN <<CategoryAccount(category, "expense"), 1121>>
            ELSE <<CategoryAccount(category, "expense"), 331>>

\* the post-entry requests that this step answers with success
Accepted(r) ==
  /\ requests[r].op = "post-entry" /\ requests[r].pc = "save"
  /\ requests'[r].pc = "done" /\ requests'[r].result = "ok"

\* C22: the two lines of every accepted post-entry request follow the
\* decision table on type, payment status and category: its first line debits
\* and its second line credits the codes of the table, and a payroll expense
\* creates no Payable.
C22_LinesFollowTable ==
  [][\A r \in Requests :
       Accepted(r)
         => LET key == requests[r].key
                codes == TableCodes(key[1], key[2], key[3])
            IN /\ Cardinality(journal' \ journal) = 1
               /\ \A e \in journal' \ journal :
                    /\ Len(e.lines) = 2
                    /\ e.lines[1].accountCode = codes[1] /\ e.lines[1].debit > 0
                    /\ e.lines[1].credit = 0
                    /\ e.lines[2].accountCode = codes[2] /\ e.lines[2].credit > 0
                    /\ e.lines[2].debit = 0
               /\ key[2] = "Luong nhan vien" => payables' = payables]_vars

\* an unpaid payroll expense was accepted: 642 against 334 and no Payable
C22_Witness ==
  /\ payables = {}
  /\ \E r \in Requests :
       /\ requests[r].op = "post-entry" /\ requests[r].result = "ok"
       /\ requests[r].key = <<"expense", "Luong nhan vien", "unpaid">>
  /\ \E e \in journal : HasLineOn(e, 642) /\ HasLineOn(e, 334)

\* debits minus credits over all lines on a code in posted entries of a range
LinesBalance(jr, accountCode, startDate, endDate) ==
  LET entries == PostedIn(jr, startDate, endDate)
  IN SumOver(entries,
       [e \in entries |->
          LET on == SelectSeq(e.lines, LAMBDA l : l.accountCode = accountCode)
          IN SumDebit(on) - SumCredit(on)])

\* C23: for every account code and date range the endingBalance of
\* account-ledger equals debits minus credits over all lines on the account
\* in posted entries of the range, and so totalDebit - totalCredit of the
\* account's trial-balance row.
C23_LedgerMatchesTrialBalance ==
  \A accountCode \in AccountCodes(accounts), startDate \in Dates, endDate \in Dates :
    /\ AccountLedger(journal, accountCode, startDate, endDate)
         = LinesBalance(journal, accountCode, startDate, endDate)
    /\ \A row \in TrialBalance(journal, accounts, startDate, endDate) :
         row.accountCode = accountCode
           => AccountLedger(journal, accountCode, startDate, endDate)
                = row.totalDebit - row.totalCredit

\* C24: for every report date on or after a period's end date, the balance
\* sheet's total of liabilities, equity and retained earnings, and its
\* balanced verdict, are the same with and without the closing of that
\* period: a successful close-period leaves both as they were.
C24_BalanceSheetSameAfterClose ==
  [][response'.op = "close-period" /\ response'.result = "ok"
       => \A p \in PeriodIds, reportDate \in Dates :
            ~PeriodClosed(periods[p]) /\ PeriodClosed(periods'[p])
              /\ reportDate >= periods[p].endDate
            => LET before == BalanceSheet(journal, accounts, reportDate)
                   after == BalanceSheet(journal', accounts', reportDate)
               IN /\ after.totalEquityAndLiabilitiesFifths
                       = before.totalEquityAndLiabilitiesFifths
                  /\ after.isBalanced = before.isBalanced]_vars

\* C25: for every date range profit-loss reports otherIncome equal to the
\* total of the credits posted within the range on the accounts whose code
\* starts with 711, and profitBeforeTax includes that amount.
C25_OtherIncomeReported ==
  \A startDate \in Dates, endDate \in Dates :
    LET report == ProfitLoss(journal, accounts, startDate, endDate)
        credits711 == PrefixCredit(PostedIn(journal, startDate, endDate), 711)
    IN /\ report.otherIncome = credits711
       /\ report.profitBeforeTax
            = report.operatingProfit + credits711 - report.otherCosts

\* the partner of the role of a request type whose name matches, any case
Matching(users, type, partnerName) ==
  {u \in users : /\ Lower(u.name) = Lower(Trim(partnerName))
                 /\ u.role = IF type = "income" THEN "customer" ELSE "supplier"}

\* C26: a post-entry request with paymentStatus unpaid that creates a debt,
\* whose partner name matches an existing partner of the matching role in any
\* case and whose valid phone differs from the stored one, updates the phone
\* of that partner to the phone of the request, attaches the new debt to
\* that partner and creates no partner.
C26_MatchedPartnerPhoneUpdated ==
  [][\A r \in Requests :
       /\ requests[r].pc = "idle" /\ requests'[r].pc = "done"
       /\ requests'[r].op = "post-entry" /\ requests'[r].result = "ok"
       => LET key == requests'[r].key
          IN \A u \in Matching(partners, key[1], key[4]) :
               /\ key[3] = "unpaid" /\ IsDebt(key[1], key[2], key[3])
               /\ PhoneValid(Trim(key[5])) /\ u.phone # Trim(key[5])
               => /\ {v.id : v \in partners'} = {v.id : v \in partners}
                  /\ \E v \in partners' : v.id = u.id /\ v.phone = Trim(key[5])
                  /\ \A d \in (receivables' \ receivables)
                              \cup (payables' \ payables) : d.partner = u.id]_vars

\* C27: for a cash-on-delivery order whose COGS entry was posted before the
\* sale, the transition to shipped still creates the sale entry debiting 131
\* and crediting 511 and its Receivable.
C27_SaleAfterEarlyCogs ==
  [][\A o \in Orders :
       /\ orders'[o].paymentMethod = "COD"
       /\ orders[o].status \notin {"none", "shipped", "delivered"}
       /\ orders'[o].status = "shipped"
       /\ CogsEntries(journal, o) # {} /\ SaleEntries(journal, o) = {}
       => /\ \E e \in SaleEntries(journal', o) :
               e.lines = <<Line(131, orders'[o].finalTotal, 0),
                           Line(511, 0, orders'[o].finalTotal)>>
          /\ ReceivablesOf(receivables', o) # {}]_vars

\* the amounts on a code by closing entries and by the other entries
ClosingEntries(jr) == {e \in jr : e.entryType = "closing" /\ e.status = "posted"}

PostedOthers(jr) == {e \in jr : e.entryType # "closing" /\ e.status = "posted"}

\* C28: over period creations and closings every posted revenue or expense
\* line is closed at most once: closing entries debit a revenue account by at
\* most what the other entries credited to it, and credit an expense account
\* by at most what the other entries debited to it.
C28_LinesClosedOnce ==
  \A c \in UNION {LineCodes(e.lines) : e \in journal} :
    /\ RevenueClass(c)
         => GroupDebit(ClosingEntries(journal), c)
              <= GroupCredit(PostedOthers(journal), c)
    /\ ExpenseClass(c)
         => GroupCredit(ClosingEntries(journal), c)
              <= GroupDebit(PostedOthers(journal), c)

\* net balance of an order on account 131: debits minus credits over the
\* journal entries whose source is the order
OrderNet131(jr, o) ==
  GroupDebit(OrderEntries(jr, o), 131) - GroupCredit(OrderEntries(jr, o), 131)

\* C29: for an order with a Receivable whose remainingAmount equals the
\* order's net balance on account 131, a createPaymentReceipt call with a
\* positive amount leaves the two equal.
C29_ReceiptKeepsNetEqualRemaining ==
  [][\A o \in Orders :
       /\ \E e \in OrderEntries(journal', o) \ journal : e.entryType = "payment"
       /\ ReceivablesOf(receivables, o) # {}
       /\ \A r \in ReceivablesOf(receivables, o) :
            r.remainingAmount = OrderNet131(journal, o)
       => \A r \in ReceivablesOf(receivables', o) :
            r.remainingAmount = OrderNet131(journal', o)]_vars

\* the coupon service under checkouts and status updates of orders that
\* carry the coupon, for a coupon with any limits
InitCoupon ==
  /\ accounts = DefaultAccounts
  /\ journal = {}
  /\ receivables = {}
  /\ payables = {}
  /\ orders = [o \in Orders |-> NoOrder]
  /\ stock = InitStock
  /\ assets = [a \in AssetIds |-> NoAsset]
  /\ periods = [p \in PeriodIds |-> NoPeriod]
  /\ response = Resp("init", 0, "ok", "none")
  /\ requests = [r \in Requests |-> NoRequest]
  /\ partners = {}
  /\ \E globalUsageLimit \in Limits, perUserUsageLimit \in Limits :
       coupons = [c \in {"SALE"} |->
                    CouponDoc(1, MaxDate, 10, globalUsageLimit,
                              perUserUsageLimit)]
  /\ couponOrders = [o \in CouponOrders |-> NoCouponOrder]

NextCoupon ==
  \/ \E o \in CouponOrders, userId \in Users, code \in CouponCodes,
        sepayIsPaid \in BOOLEAN, now \in 1..(MaxDate + 1) :
        CouponCheckout(o, userId, code, sepayIsPaid, now)
  \/ \E o \in CouponOrders, newStatus \in {"pending", "paid", "cancelled"},
        now \in 1..(MaxDate + 1) :
        CouponPatch(o, newStatus, now)

SpecCoupon == InitCoupon /\ [][NextCoupon]_vars

\* C30: a coupon with a non-null globalUsageLimit never has usedCount above
\* the limit, whatever reservations, commits (with or without a reservation)
\* and releases happened.
C30_UsedWithinGlobalLimit ==
  \A c \in DOMAIN coupons :
    coupons[c].globalUsageLimit # Null
      => coupons[c].usedCount <= coupons[c].globalUsageLimit

====
